---------------------------- MODULE Spec2Model ----------------------------
(***************************************************************************)
(* Travel-burden chains of the NBA schedule (src/schedulizer.py).         *)
(*                                                                         *)
(* schedulizer(regular_season_data, stadium_distance_data, team_name)     *)
(* filters the season table to the rows of one team, parses each row's    *)
(* date and start time, sorts the rows by that instant and walks them,    *)
(* emitting one record per game.  The model follows the function          *)
(* statement by statement: FilterGames (l.66-73), ParseGames (l.75-113),  *)
(* SortGames (l.115-122), BuildRecord (one iteration of the loop of       *)
(* l.127-233) and ReturnGames (l.235).                                     *)
(*                                                                         *)
(* Conventions.                                                            *)
(*  - Python's None is the empty sequence << >>, a present value x is      *)
(*    <<x>>.                                                               *)
(*  - An instant (datetime) is its number of minutes since                 *)
(*    2024-01-01 00:00; parse_datetime has minute resolution.              *)
(*  - A float is a fraction [num, den] with den > 0 (travel_hours,         *)
(*    game_mile_hours_burden) or, for distances, a whole number of miles.  *)
(*  - A text cell of the CSV is the tuple of the groups its regular        *)
(*    expression captures; a text the expression does not match is << >>.  *)
(***************************************************************************)
EXTENDS Integers, Sequences, FiniteSets, TLC

VARIABLES
    regular_season_data,  \* the season table: a sequence of rows (pd.read_csv, l.49)
    distance_df,          \* the distance matrix: [keys, cell] (l.52)
    team_coords,          \* stadium coordinates by team (l.55-57)
    team_name,            \* the team asked for
    pc,                   \* where schedulizer is: start, parse, sort, loop, done, raised
    team_games,           \* the team's rows, as filtered / parsed / sorted
    idx,                  \* rows of team_games already walked by the loop of l.127
    game_list,            \* the records emitted so far (l.125, l.233)
    error,                \* the exception that ended the call, "" while none
    warning,              \* the game count the warning of l.122 printed, None while none
    mpc,                  \* the caller: single (a direct call), or where
                          \* create_schedule_mapping is: begin, mapping, finished
    all_teams,            \* src/metrics.py l.20-21: the sorted team names
    team_i,               \* src/metrics.py l.28: how many teams the loop has taken
    schedule_mapping,     \* src/metrics.py l.24: team -> Some(schedule) or None
    \* what the functions called on the schedule mapping returned, None before
    \* the call
    average_burdens,      \* src/metrics.py l.69-108
    total_burdens,        \* src/metrics.py l.110-149
    total_distances,      \* src/metrics_normalized.py l.6-45
    cumulative_burdens,   \* src/visualize_burden.py l.15-43, for every team
    normalized_distances, \* src/metrics_normalized.py l.58-116
    normalized_burdens,   \* src/metrics_normalized.py l.119-177
    average_distances,    \* src/analysis.py l.5-39
    BTY_data,             \* src/analysis.py l.43-62
    \* src/html_reader.py: a scraped start time on its way into the schedule file
    time_raw,             \* the text scraped, a sequence of characters
    start_et,             \* what convert_time_format made of it, None before
    parsed                \* what parse_datetime read from that, None before

vars == <<regular_season_data, distance_df, team_coords, team_name, pc,
          team_games, idx, game_list, error, warning, mpc, all_teams, team_i,
          schedule_mapping, average_burdens, total_burdens, total_distances,
          cumulative_burdens, normalized_distances, normalized_burdens,
          average_distances, BTY_data, time_raw, start_et, parsed>>

-----------------------------------------------------------------------------
(* Bounds of the model *)

MaxRows == 3

-----------------------------------------------------------------------------
(* Constants of the program *)

\* l.121: the games of a full season
ExpectedGames == 82

\* src/analysis.py l.59: the road games of a season
SeasonRoadGames == 41

-----------------------------------------------------------------------------
(* Small arithmetic *)

Abs(x) == IF x < 0 THEN -x ELSE x

None == << >>

Some(x) == <<x>>

Frac(n, d) == [num |-> n, den |-> d]

-----------------------------------------------------------------------------
(* Names *)

Kings == "Sacramento Kings"

KingsTypo == "Sacremento Kings"

Heat == "Miami Heat"

Wizards == "Washington Wizards"

Teams == {Kings, Heat, Wizards}

HomeArena == "Home Arena"

MexicoCity == "Mexico City Arena"

AccorHotels == "AccorHotels Arena"

\* l.43-46; coordinates in whole degrees
INTERNATIONAL_ARENAS ==
    (MexicoCity :> <<19, -99>>) @@ (AccorHotels :> <<49, 2>>)

\* Mutant of normalize_team_name_for_coords: the name is left as the schedule
\* spells it
normalize_team_name_for_coords_identity(team) == team

\* l.60-64
normalize_team_name_for_coords(name) ==
    IF name = Kings THEN KingsTypo ELSE name

\* Mutant of normalize_team_name: the two spellings are swapped
normalize_team_name_swapping(name) ==
    IF name = Kings THEN KingsTypo
    ELSE IF name = KingsTypo THEN Kings
    ELSE name

\* l.194-199
normalize_team_name(name) ==
    IF name = Kings THEN KingsTypo ELSE name

\* src/metrics_normalized.py l.48-55
metrics_normalize_team_name(name) ==
    IF name = Kings THEN KingsTypo ELSE name

-----------------------------------------------------------------------------
(* geopy's geodesic(p, q).miles, abstracted to a metric on whole-degree    *)
(* coordinates: symmetric, zero exactly on equal points, never negative.   *)

geodesic(p, q) == 60 * (Abs(p[1] - q[1]) + Abs(p[2] - q[2]))


-----------------------------------------------------------------------------
(* parse_datetime, l.76-107.  date_str is the tuple of the groups of        *)
(* (\w+),\s+(\w+)\s+(\d+),\s+(\d+), time_str the tuple of the groups of     *)
(* (\d+):(\d+)([ap]); a text that does not match is << >>.                  *)

\* l.83-86
month_map ==
    ("Jan" :> 1) @@ ("Feb" :> 2) @@ ("Mar" :> 3) @@ ("Apr" :> 4) @@
    ("May" :> 5) @@ ("Jun" :> 6) @@ ("Jul" :> 7) @@ ("Aug" :> 8) @@
    ("Sep" :> 9) @@ ("Oct" :> 10) @@ ("Nov" :> 11) @@ ("Dec" :> 12)

IsLeap(year) == year % 4 = 0 /\ (year % 100 # 0 \/ year % 400 = 0)

DaysInMonth(year) ==
    <<31, IF IsLeap(year) THEN 29 ELSE 28, 31, 30, 31, 30, 31, 31, 30, 31, 30, 31>>

RECURSIVE DaysBeforeMonth(_, _)
DaysBeforeMonth(year, month) ==
    IF month = 1 THEN 0
    ELSE DaysBeforeMonth(year, month - 1) + DaysInMonth(year)[month - 1]

\* days from 2024-01-01 to the first day of `year` (2024 <= year < 2100)
DaysBeforeYear(year) == (year - 2024) * 365 + ((year - 2021) \div 4)

\* datetime(year, month, day, hour, minute), l.107, as minutes since 2024-01-01 00:00
datetime(year, month, day, hour, minute) ==
    ((DaysBeforeYear(year) + DaysBeforeMonth(year, month) + day - 1) * 24 + hour) * 60
        + minute

\* l.100-104
to_24_hour(hour, am_pm) ==
    IF am_pm = "p" /\ hour # 12 THEN hour + 12
    ELSE IF am_pm = "a" /\ hour = 12 THEN 0
    ELSE hour

\* The exception parse_datetime raises on these texts, "" when it returns.
parse_error(date_str, time_str) ==
    IF Len(date_str) # 4 THEN "ValueError: Could not parse date"
    ELSE IF date_str[2] \notin DOMAIN month_map THEN "KeyError: month"
    ELSE IF Len(time_str) # 3 THEN "ValueError: Could not parse time"
    ELSE ""

\* The instant parse_datetime returns (when parse_error is "").
parse_datetime(date_str, time_str) ==
    datetime(date_str[4], month_map[date_str[2]], date_str[3],
             to_24_hour(time_str[1], time_str[3]), time_str[2])

-----------------------------------------------------------------------------
(* The input tables *)

\* nba_stadiums.csv (l.55-57): the Kings are spelled with the typo there
AllStadiums ==
    (KingsTypo :> <<39, -121>>) @@ (Heat :> <<26, -80>>) @@ (Wizards :> <<39, -77>>)

Restrict(f, S) == [x \in S |-> f[x]]

StadiumTables == {AllStadiums, Restrict(AllStadiums, {KingsTypo, Heat})}

\* src/matrix_maker.py l.15-58: the matrix made from a stadium table
matrix_maker(stadiums) ==
    [keys |-> DOMAIN stadiums,
     cell |-> [k \in (DOMAIN stadiums) \X (DOMAIN stadiums) |->
                  IF k[1] = k[2] THEN 0 ELSE geodesic(stadiums[k[1]], stadiums[k[2]])]]

\* Any other file passed as stadium_distance_data: not symmetric, diagonal not zero
Rank == (KingsTypo :> 1) @@ (Heat :> 2) @@ (Wizards :> 3)

OtherMatrix ==
    [keys |-> DOMAIN Rank,
     cell |-> [k \in (DOMAIN Rank) \X (DOMAIN Rank) |-> 100 * Rank[k[1]] + Rank[k[2]]]]

\* The rows of the season table (columns Game Date, Start (ET), Visitor/Neutral,
\* Home/Neutral, Arena)
Row(date, start, visitor, home, arena) ==
    [date |-> date, start |-> start, visitor |-> visitor, home |-> home, arena |-> arena]

Matchups == {<<Heat, Kings>>, <<Kings, Heat>>, <<Kings, Wizards>>, <<Wizards, Heat>>}

GameTimes == {<< <<"Tue", "Oct", 22, 2024>>, <<10, 0, "p">> >>,
              << <<"Wed", "Oct", 23, 2024>>, <<7, 30, "p">> >>}

RegularRows ==
    {Row(t[1], t[2], m[1], m[2], HomeArena) : t \in GameTimes, m \in Matchups}

\* "Sat, Nov 2, 2024",9:30p,Miami Heat,Washington Wizards,Mexico City Arena (l.18)
InternationalRows ==
    {Row(t[1], t[2], Heat, Wizards, MexicoCity) : t \in GameTimes}

UnparseableRows ==
    {Row(<< >>, <<7, 30, "p">>, Heat, Kings, HomeArena),
     Row(<<"Wed", "Oct", 23, 2024>>, << >>, Kings, Wizards, HomeArena)}

RowSet == RegularRows \cup InternationalRows \cup UnparseableRows

SeasonTables == UNION {[1..n -> RowSet] : n \in 0..MaxRows}

-----------------------------------------------------------------------------
(* schedulizer *)

\* none of those functions has been called
NotCalled ==
    /\ average_burdens = None
    /\ total_burdens = None
    /\ total_distances = None
    /\ cumulative_burdens = None
    /\ normalized_distances = None
    /\ normalized_burdens = None
    /\ average_distances = None
    /\ BTY_data = None
    /\ time_raw = << >>
    /\ start_et = None
    /\ parsed = None

Init ==
    /\ regular_season_data \in SeasonTables
    /\ team_coords \in StadiumTables
    /\ distance_df \in {matrix_maker(team_coords), OtherMatrix}
    /\ team_name \in Teams
    /\ pc = "start"
    /\ team_games = << >>
    /\ idx = 0
    /\ game_list = << >>
    /\ error = ""
    /\ warning = None
    /\ mpc = "single"
    /\ all_teams = << >>
    /\ team_i = 0
    /\ schedule_mapping = << >>
    /\ NotCalled

inputs == <<regular_season_data, distance_df, team_coords, team_name>>

\* the state of the caller, which schedulizer does not touch
caller == <<mpc, all_teams, team_i, schedule_mapping>>

\* the state of the functions that work on the schedule mapping, on the distance
\* matrix and on scraped text
elsewhere ==
    <<average_burdens, total_burdens, total_distances, cumulative_burdens,
      normalized_distances, normalized_burdens, average_distances, BTY_data,
      time_raw, start_et, parsed>>

\* Mutant of TeamRows: the visitor column is not looked at
TeamRows_home_only(table, team) ==
    {i \in DOMAIN table : table[i].home = team}

\* Mutant of TeamRows: no row is filtered out
TeamRows_every_row(table, team) == DOMAIN table

\* l.66-70: the positions of the rows where the team is visitor or home
TeamRows(table, team) ==
    {i \in DOMAIN table : table[i].visitor = team \/ table[i].home = team}

RECURSIVE Ascending(_)
\* the elements of a finite set of numbers, ascending
Ascending(S) ==
    IF S = {} THEN << >>
    ELSE LET m == CHOOSE x \in S : \A y \in S : x <= y
         IN  <<m>> \o Ascending(S \ {m})

\* l.66-73: keep the team's rows, in table order, and flag the international ones.
\* src is the row's index label in the season table (reset_index drops it, l.116;
\* the model keeps it to tell which row a game came from).
FilterGames ==
    /\ pc = "start"
    /\ LET keep == Ascending(TeamRows(regular_season_data, team_name))
       IN  team_games' =
             [k \in DOMAIN keep |->
                 [src |-> keep[k],
                  row |-> regular_season_data[keep[k]],
                  is_international |->
                      regular_season_data[keep[k]].arena \in DOMAIN INTERNATIONAL_ARENAS]]
    /\ pc' = "parse"
    /\ UNCHANGED <<inputs, idx, game_list, error, warning, caller>>
    /\ UNCHANGED elsewhere

\* l.109-113: apply parse_datetime to every row of the team, first to last; the
\* first row it fails on ends the call.
ParseGames ==
    /\ pc = "parse"
    /\ LET bad == {k \in DOMAIN team_games :
                      parse_error(team_games[k].row.date, team_games[k].row.start) # ""}
       IN  IF bad = {}
           THEN /\ team_games' =
                     [k \in DOMAIN team_games |->
                         [src |-> team_games[k].src,
                          row |-> team_games[k].row,
                          is_international |-> team_games[k].is_international,
                          game_datetime |->
                              parse_datetime(team_games[k].row.date,
                                             team_games[k].row.start)]]
                /\ pc' = "sort"
                /\ error' = ""
           ELSE LET first == CHOOSE k \in bad : \A j \in bad : k <= j
                IN  /\ team_games' = team_games
                    /\ pc' = "raised"
                    /\ error' = parse_error(team_games[first].row.date,
                                            team_games[first].row.start)
    /\ UNCHANGED <<inputs, idx, game_list, warning, caller>>
    /\ UNCHANGED elsewhere

\* Mutant of SortedOrders: the rows are left in table order
SortedOrders_unsorted(games) == {[i \in DOMAIN games |-> i]}

\* Mutant of SortedOrders: the sort is descending
SortedOrders_descending(games) ==
    {p \in Permutations(DOMAIN games) :
        \A i, j \in DOMAIN games :
            i < j => games[p[i]].game_datetime >= games[p[j]].game_datetime}

\* sort_values('game_datetime') with pandas' default kind, quicksort: ascending,
\* the order of rows with equal keys is not specified.
SortedOrders(games) ==
    {p \in Permutations(DOMAIN games) :
        \A i, j \in DOMAIN games :
            i < j => games[p[i]].game_datetime <= games[p[j]].game_datetime}

\* Mutant of count_check: an empty selection is let through
count_check_lenient(n) ==
    IF n < ExpectedGames THEN [error |-> "", warning |-> Some(n)]
    ELSE [error |-> "", warning |-> None]

\* Mutant of count_check: fewer games than a full season is an error
count_check_strict(n) ==
    IF n < ExpectedGames THEN [error |-> "ValueError: No games found", warning |-> None]
    ELSE [error |-> "", warning |-> None]

\* l.118-122: an empty selection raises, a short one prints a warning
count_check(n) ==
    IF n = 0 THEN [error |-> "ValueError: No games found", warning |-> None]
    ELSE IF n < ExpectedGames THEN [error |-> "", warning |-> Some(n)]
    ELSE [error |-> "", warning |-> None]

\* l.115-122: sort, renumber from 0, and check how many games there are.
SortGames ==
    /\ pc = "sort"
    /\ \E p \in SortedOrders(team_games) :
          team_games' = [i \in DOMAIN team_games |-> team_games[p[i]]]
    /\ pc' = IF count_check(Len(team_games)).error # "" THEN "raised" ELSE "loop"
    /\ error' = count_check(Len(team_games)).error
    /\ warning' = count_check(Len(team_games)).warning
    /\ idx' = 0
    /\ UNCHANGED <<inputs, game_list, caller>>
    /\ UNCHANGED elsewhere

\* Mutant of coordinates_error: the team name is looked up as the schedule spells it
coordinates_error_raw(team, arena_name, is_intl, coords) ==
    IF is_intl THEN ""
    ELSE IF team \in DOMAIN coords THEN ""
    ELSE "ValueError: Could not find coordinates"

\* l.171-180: the exception get_coordinates raises, "" when it returns
coordinates_error(team, arena_name, is_intl, coords) ==
    IF is_intl THEN ""
    ELSE IF normalize_team_name_for_coords(team) \in DOMAIN coords THEN ""
    ELSE "ValueError: Could not find coordinates"

\* l.171-180
get_coordinates(team, arena_name, is_intl, coords) ==
    IF is_intl THEN INTERNATIONAL_ARENAS[arena_name]
    ELSE coords[normalize_team_name_for_coords(team)]

\* Mutant of matrix_distance: the override of l.207-208 dropped
matrix_distance_no_override(prev_where_played, where_played, matrix) ==
    IF /\ normalize_team_name(prev_where_played) \in matrix.keys
       /\ normalize_team_name(where_played) \in matrix.keys
    THEN matrix.cell[<<normalize_team_name(prev_where_played),
                       normalize_team_name(where_played)>>]
    ELSE 0

\* Mutant of matrix_distance: the column label is not normalized
matrix_distance_half_normalized(prev_where_played, where_played, matrix) ==
    IF /\ normalize_team_name(prev_where_played) \in matrix.keys
       /\ where_played \in matrix.keys
    THEN IF prev_where_played = where_played
         THEN 0
         ELSE matrix.cell[<<normalize_team_name(prev_where_played), where_played>>]
    ELSE 0

\* Mutant of matrix_distance: an unknown team gives the sentinel -1, not 0.0
matrix_distance_sentinel(prev_where_played, where_played, matrix) ==
    IF /\ normalize_team_name(prev_where_played) \in matrix.keys
       /\ normalize_team_name(where_played) \in matrix.keys
    THEN IF prev_where_played = where_played
         THEN 0
         ELSE matrix.cell[<<normalize_team_name(prev_where_played),
                            normalize_team_name(where_played)>>]
    ELSE -1

\* l.204-211: the matrix lookup of a leg between two regular venues
matrix_distance(prev_where_played, where_played, matrix) ==
    LET prev_where_played_normalized == normalize_team_name(prev_where_played)
        where_played_normalized == normalize_team_name(where_played)
    IN  IF /\ prev_where_played_normalized \in matrix.keys
           /\ where_played_normalized \in matrix.keys
        THEN IF prev_where_played = where_played
             THEN 0
             ELSE matrix.cell[<<prev_where_played_normalized, where_played_normalized>>]
        ELSE 0

\* Mutant of leg_error: the except of l.209-211 dropped, a label missing from the
\* matrix raises
leg_error_uncaught(prev, curr, coords) ==
    IF prev.is_international \/ curr.is_international
    THEN IF coordinates_error(prev.row.home, prev.row.arena, prev.is_international,
                              coords) # ""
         THEN coordinates_error(prev.row.home, prev.row.arena, prev.is_international,
                                coords)
         ELSE coordinates_error(curr.row.home, curr.row.arena, curr.is_international,
                                coords)
    ELSE IF /\ normalize_team_name(prev.row.home) \in distance_df.keys
            /\ normalize_team_name(curr.row.home) \in distance_df.keys
         THEN ""
         ELSE "KeyError"

\* l.183-191: the exception the geodesic branch raises, "" when it returns
leg_error(prev, curr, coords) ==
    IF prev.is_international \/ curr.is_international
    THEN IF coordinates_error(prev.row.home, prev.row.arena, prev.is_international,
                              coords) # ""
         THEN coordinates_error(prev.row.home, prev.row.arena, prev.is_international,
                                coords)
         ELSE coordinates_error(curr.row.home, curr.row.arena, curr.is_international,
                                coords)
    ELSE ""

\* Mutant of leg_distance: a leg between two international venues is read from
\* the matrix like a leg between two home arenas
leg_distance_one_abroad(prev, curr, matrix, coords) ==
    IF prev.is_international # curr.is_international
    THEN geodesic(get_coordinates(prev.row.home, prev.row.arena,
                                  prev.is_international, coords),
                  get_coordinates(curr.row.home, curr.row.arena,
                                  curr.is_international, coords))
    ELSE matrix_distance(prev.row.home, curr.row.home, matrix)

\* Mutant of leg_distance: only the current game's venue decides the branch
leg_distance_current_only(prev, curr, matrix, coords) ==
    IF curr.is_international
    THEN geodesic(get_coordinates(prev.row.home, prev.row.arena,
                                  prev.is_international, coords),
                  get_coordinates(curr.row.home, curr.row.arena,
                                  curr.is_international, coords))
    ELSE matrix_distance(prev.row.home, curr.row.home, matrix)

\* l.182-211: travel_distance of the leg from game prev to game curr
leg_distance(prev, curr, matrix, coords) ==
    IF prev.is_international \/ curr.is_international
    THEN geodesic(get_coordinates(prev.row.home, prev.row.arena,
                                  prev.is_international, coords),
                  get_coordinates(curr.row.home, curr.row.arena,
                                  curr.is_international, coords))
    ELSE matrix_distance(prev.row.home, curr.row.home, matrix)

\* Mutant of travel_minutes: the difference taken the other way round
travel_minutes_reversed(prev, curr) == prev.game_datetime - curr.game_datetime

\* l.162-164: minutes between the two games; travel_hours is this over 60
travel_minutes(prev, curr) == curr.game_datetime - prev.game_datetime

\* Python's a / b on floats: [error, value]; it raises exactly when b is zero
divide(n, d) ==
    IF d = 0 THEN [error |-> "ZeroDivisionError", value |-> None]
    ELSE [error |-> "", value |-> Some(Frac(n, d))]

\* Mutant of burden: a leg of no miles has no burden either
burden_moving_only(travel_distance, minutes) ==
    IF minutes > 0 /\ travel_distance > 0 THEN divide(travel_distance * 60, minutes)
    ELSE [error |-> "", value |-> None]

\* Mutant of burden: the guard of l.214 dropped
burden_unguarded(travel_distance, minutes) ==
    divide(travel_distance * 60, minutes)

\* Mutant of burden: hours per mile instead of miles per hour
burden_inverted(travel_distance, minutes) ==
    IF minutes > 0 THEN divide(minutes, travel_distance * 60)
    ELSE [error |-> "", value |-> None]

\* l.213-217: travel_distance / travel_hours, travel_hours being minutes / 60
burden(travel_distance, minutes) ==
    IF minutes > 0 THEN divide(travel_distance * 60, minutes)
    ELSE [error |-> "", value |-> None]

\* l.129-133
game_location(row, team) == IF row.home = team THEN "home" ELSE "away"

game_opponent(row, team) == IF row.home # team THEN row.home ELSE row.visitor

\* Mutant of game_dict: an international game is recorded at its arena
game_dict_arena(team, gameindex, curr, prev_game_dt, prev_where_played, distance, hours, ratio) ==
    [team |-> team,
     gameindex |-> gameindex,
     game_datetime |-> curr.game_datetime,
     previous_game_datetime |-> prev_game_dt,
     opponent |-> game_opponent(curr.row, team),
     location |-> game_location(curr.row, team),
     where_played |-> IF curr.is_international THEN curr.row.arena ELSE curr.row.home,
     previous_where_played |-> prev_where_played,
     travel_distance |-> distance,
     travel_hours |-> hours,
     game_mile_hours_burden |-> ratio]

\* The dict of l.143-155 and l.219-231
game_dict(team, gameindex, curr, prev_game_dt, prev_where_played, distance, hours, ratio) ==
    [team |-> team,
     gameindex |-> gameindex,
     game_datetime |-> curr.game_datetime,
     previous_game_datetime |-> prev_game_dt,
     opponent |-> game_opponent(curr.row, team),
     location |-> game_location(curr.row, team),
     where_played |-> curr.row.home,
     previous_where_played |-> prev_where_played,
     travel_distance |-> distance,
     travel_hours |-> hours,
     game_mile_hours_burden |-> ratio]

\* Mutant of first_record: the first game's travel fields zeroed instead of None
first_record_zeroed(curr, team) ==
    game_dict(team, 1, curr, None, None, Some(0), Some(Frac(0, 60)), None)

\* l.141-155: the first game has no previous game
first_record(curr, team) ==
    game_dict(team, 1, curr, None, None, None, None, None)

\* Mutant of later_record: gameindex is the 0-based idx
later_record_zero_based(prev, curr, i, team, matrix, coords) ==
    game_dict(team, i, curr, Some(prev.game_datetime), Some(prev.row.home),
              Some(leg_distance(prev, curr, matrix, coords)),
              Some(Frac(travel_minutes(prev, curr), 60)),
              burden(leg_distance(prev, curr, matrix, coords),
                     travel_minutes(prev, curr)).value)

\* l.156-231: a later game, i being the loop's 0-based idx
later_record(prev, curr, i, team, matrix, coords) ==
    game_dict(team, i + 1, curr, Some(prev.game_datetime), Some(prev.row.home),
              Some(leg_distance(prev, curr, matrix, coords)),
              Some(Frac(travel_minutes(prev, curr), 60)),
              burden(leg_distance(prev, curr, matrix, coords),
                     travel_minutes(prev, curr)).value)

\* The exception one iteration for a later game raises, "" when it emits its record:
\* the coordinate lookups of l.187-188 come first, the division of l.215 last.
record_error(prev, curr, matrix, coords) ==
    IF leg_error(prev, curr, coords) # "" THEN leg_error(prev, curr, coords)
    ELSE burden(leg_distance(prev, curr, matrix, coords),
                travel_minutes(prev, curr)).error

\* l.127-233: one iteration of the loop over team_games
BuildRecord ==
    /\ pc = "loop"
    /\ idx < Len(team_games)
    /\ IF idx = 0
       THEN /\ game_list' = Append(game_list, first_record(team_games[1], team_name))
            /\ idx' = idx + 1
            /\ UNCHANGED <<pc, error>>
       ELSE IF record_error(team_games[idx], team_games[idx + 1],
                            distance_df, team_coords) # ""
       THEN /\ pc' = "raised"
            /\ error' = record_error(team_games[idx], team_games[idx + 1],
                                     distance_df, team_coords)
            /\ UNCHANGED <<idx, game_list>>
       ELSE /\ game_list' =
                 Append(game_list,
                        later_record(team_games[idx], team_games[idx + 1], idx,
                                     team_name, distance_df, team_coords))
            /\ idx' = idx + 1
            /\ UNCHANGED <<pc, error>>
    /\ UNCHANGED <<inputs, team_games, warning, caller>>
    /\ UNCHANGED elsewhere

\* l.235
ReturnGames ==
    /\ pc = "loop"
    /\ idx = Len(team_games)
    /\ pc' = "done"
    /\ UNCHANGED <<inputs, team_games, idx, game_list, error, warning, caller>>
    /\ UNCHANGED elsewhere

Next == FilterGames \/ ParseGames \/ SortGames \/ BuildRecord \/ ReturnGames

Spec == Init /\ [][Next]_vars

-----------------------------------------------------------------------------
(* schedulizer on a three-game schedule: home, away a day later, home two days
   after that *)

ScenarioTimes ==
    << << <<"Tue", "Oct", 22, 2024>>, <<7, 30, "p">> >>,
       << <<"Wed", "Oct", 23, 2024>>, <<7, 30, "p">> >>,
       << <<"Fri", "Oct", 25, 2024>>, <<7, 30, "p">> >> >>

\* the three games of the Heat: Kings at Heat, Heat at Wizards, Wizards at Heat
ScenarioRows ==
    {Row(ScenarioTimes[1][1], ScenarioTimes[1][2], Kings, Heat, HomeArena),
     Row(ScenarioTimes[2][1], ScenarioTimes[2][2], Heat, Wizards, HomeArena),
     Row(ScenarioTimes[3][1], ScenarioTimes[3][2], Wizards, Heat, HomeArena)}

\* games of the other two teams among themselves
ScenarioOtherRows ==
    {Row(ScenarioTimes[1][1], ScenarioTimes[1][2], Kings, Wizards, HomeArena),
     Row(ScenarioTimes[3][1], ScenarioTimes[3][2], Wizards, Kings, HomeArena)}

ScenarioTables ==
    UNION {[1..n -> ScenarioRows \cup ScenarioOtherRows] : n \in 0..MaxRows}

\* a matrix holding 500 miles between the Heat and the Wizards
ScenarioMatrix ==
    [keys |-> DOMAIN Rank,
     cell |-> [k \in (DOMAIN Rank) \X (DOMAIN Rank) |->
                  IF k[1] = k[2] THEN 0
                  ELSE IF {k[1], k[2]} = {Heat, Wizards} THEN 500
                  ELSE 700]]

InitScenario ==
    /\ regular_season_data \in ScenarioTables
    /\ team_coords = AllStadiums
    /\ distance_df = ScenarioMatrix
    /\ team_name \in Teams
    /\ pc = "start"
    /\ team_games = << >>
    /\ idx = 0
    /\ game_list = << >>
    /\ error = ""
    /\ warning = None
    /\ mpc = "single"
    /\ all_teams = << >>
    /\ team_i = 0
    /\ schedule_mapping = << >>
    /\ NotCalled

SpecScenario == InitScenario /\ [][Next]_vars

-----------------------------------------------------------------------------
(* create_schedule_mapping (src/metrics.py) *)

\* the team names in the order sorted() gives them
TeamOrder == <<Heat, Kings, Wizards>>

\* l.20: the names of the Visitor/Neutral and of the Home/Neutral column
team_columns(season_df) ==
    {season_df[i].visitor : i \in DOMAIN season_df}
        \cup {season_df[i].home : i \in DOMAIN season_df}

\* l.21
sorted_teams(names) == SelectSeq(TeamOrder, LAMBDA t : t \in names)

\* the same two files are read by create_schedule_mapping and by every call of
\* schedulizer it makes
InitMapping ==
    /\ regular_season_data \in SeasonTables
    /\ team_coords \in StadiumTables
    /\ distance_df = matrix_maker(team_coords)
    /\ team_name = ""
    /\ pc = "idle"
    /\ team_games = << >>
    /\ idx = 0
    /\ game_list = << >>
    /\ error = ""
    /\ warning = None
    /\ mpc = "begin"
    /\ all_teams = << >>
    /\ team_i = 0
    /\ schedule_mapping = << >>
    /\ NotCalled

\* l.17-24
CollectTeams ==
    /\ mpc = "begin"
    /\ all_teams' = sorted_teams(team_columns(regular_season_data))
    /\ schedule_mapping' = << >>
    /\ mpc' = "mapping"
    /\ UNCHANGED <<inputs, pc, team_games, idx, game_list, error, warning, team_i>>
    /\ UNCHANGED elsewhere

\* l.28-30: the loop takes the next team and calls schedulizer for it
CallSchedulizer ==
    /\ mpc = "mapping"
    /\ pc = "idle"
    /\ team_i < Len(all_teams)
    /\ team_i' = team_i + 1
    /\ team_name' = all_teams[team_i + 1]
    /\ pc' = "start"
    /\ team_games' = << >>
    /\ idx' = 0
    /\ game_list' = << >>
    /\ error' = ""
    /\ warning' = None
    /\ UNCHANGED <<regular_season_data, distance_df, team_coords, mpc, all_teams,
                   schedule_mapping>>
    /\ UNCHANGED elsewhere

\* Mutant of on_return: every team's entry is the one list the loop just got back
on_return_shared(mapping, team, schedule) ==
    [t \in DOMAIN mapping \cup {team} |-> Some(schedule)]

\* l.31: the schedule returned is stored under the team
on_return(mapping, team, schedule) ==
    [t \in DOMAIN mapping \cup {team} |->
        IF t = team THEN Some(schedule) ELSE mapping[t]]

\* Mutant of on_exception: a team whose schedule failed gets no entry
on_exception_skip(mapping, team) == mapping

\* l.33-35: any exception is caught and None is stored under the team
on_exception(mapping, team) ==
    [t \in DOMAIN mapping \cup {team} |-> IF t = team THEN None ELSE mapping[t]]

\* l.30-32
StoreSchedule ==
    /\ mpc = "mapping"
    /\ pc = "done"
    /\ schedule_mapping' = on_return(schedule_mapping, team_name, game_list)
    /\ pc' = "idle"
    /\ UNCHANGED <<inputs, team_games, idx, game_list, error, warning, mpc,
                   all_teams, team_i>>
    /\ UNCHANGED elsewhere

\* l.33-35
StoreNone ==
    /\ mpc = "mapping"
    /\ pc = "raised"
    /\ schedule_mapping' = on_exception(schedule_mapping, team_name)
    /\ pc' = "idle"
    /\ UNCHANGED <<inputs, team_games, idx, game_list, error, warning, mpc,
                   all_teams, team_i>>
    /\ UNCHANGED elsewhere

\* l.39
ReturnMapping ==
    /\ mpc = "mapping"
    /\ pc = "idle"
    /\ team_i = Len(all_teams)
    /\ mpc' = "finished"
    /\ UNCHANGED <<inputs, pc, team_games, idx, game_list, error, warning,
                   all_teams, team_i, schedule_mapping>>
    /\ UNCHANGED elsewhere

NextMapping ==
    \/ CollectTeams \/ CallSchedulizer
    \/ FilterGames \/ ParseGames \/ SortGames \/ BuildRecord \/ ReturnGames
    \/ StoreSchedule \/ StoreNone \/ ReturnMapping

SpecMapping == InitMapping /\ [][NextMapping]_vars

-----------------------------------------------------------------------------
(* create_schedule_mapping with the teams taken in any order: l.21 sorts the
   names only to fix the order of the loop *)

\* every arrangement of a set of names
AllOrders(names) ==
    {s \in [1..Cardinality(names) -> names] :
        \A i, j \in DOMAIN s : i # j => s[i] # s[j]}

\* l.17-24, the loop order left open
CollectTeamsAnyOrder ==
    /\ mpc = "begin"
    /\ all_teams' \in AllOrders(team_columns(regular_season_data))
    /\ schedule_mapping' = << >>
    /\ mpc' = "mapping"
    /\ UNCHANGED <<inputs, pc, team_games, idx, game_list, error, warning, team_i>>
    /\ UNCHANGED elsewhere

NextAnyOrder ==
    \/ CollectTeamsAnyOrder \/ CallSchedulizer
    \/ FilterGames \/ ParseGames \/ SortGames \/ BuildRecord \/ ReturnGames
    \/ StoreSchedule \/ StoreNone \/ ReturnMapping

\* season tables over a few of the rows: games on both days, the game in Mexico
\* City and a row whose date does not parse
OrderRows ==
    {r \in RowSet :
        \/ r.arena = MexicoCity /\ r.start = <<7, 30, "p">>
        \/ r.date = << >>
        \/ r.arena = HomeArena /\ r.start = <<10, 0, "p">> /\ r.home = Kings
        \/ /\ r.arena = HomeArena /\ r.start = <<7, 30, "p">> /\ r.date # << >>
           /\ r.visitor # Heat}

OrderTables == UNION {[1..n -> OrderRows] : n \in 0..MaxRows}

InitAnyOrder ==
    /\ regular_season_data \in OrderTables
    /\ team_coords \in StadiumTables
    /\ distance_df = matrix_maker(team_coords)
    /\ team_name = ""
    /\ pc = "idle"
    /\ team_games = << >>
    /\ idx = 0
    /\ game_list = << >>
    /\ error = ""
    /\ warning = None
    /\ mpc = "begin"
    /\ all_teams = << >>
    /\ team_i = 0
    /\ schedule_mapping = << >>
    /\ NotCalled

SpecAnyOrder == InitAnyOrder /\ [][NextAnyOrder]_vars

-----------------------------------------------------------------------------
(* The functions on the schedule mapping (src/metrics.py,
   src/metrics_normalized.py, src/visualize_burden.py).  A float is the
   fraction [num, den] it stands for, den > 0, kept in lowest terms. *)

RECURSIVE Gcd(_, _)
Gcd(a, b) == IF b = 0 THEN a ELSE Gcd(b, a % b)

\* the same number in lowest terms
lowest_terms(f) ==
    [num |-> f.num \div Gcd(Abs(f.num), f.den), den |-> f.den \div Gcd(Abs(f.num), f.den)]

\* f + g
float_add(f, g) ==
    lowest_terms([num |-> lowest_terms(f).num * lowest_terms(g).den
                             + lowest_terms(g).num * lowest_terms(f).den,
                  den |-> lowest_terms(f).den * lowest_terms(g).den])

\* f / g, g being positive
float_div(f, g) ==
    lowest_terms([num |-> lowest_terms(f).num * lowest_terms(g).den,
                  den |-> lowest_terms(f).den * lowest_terms(g).num])

RECURSIVE float_sum(_)
\* sum(values): 0 + values[1] + ... from the left
float_sum(values) ==
    IF values = << >> THEN Frac(0, 1)
    ELSE float_add(float_sum(SubSeq(values, 1, Len(values) - 1)), values[Len(values)])

\* src/metrics.py l.94-96 and l.135-137: the burdens of the schedule that are not None
non_null_burdens(schedule) ==
    LET kept == SelectSeq(schedule, LAMBDA game : game.game_mile_hours_burden # None)
    IN  [k \in DOMAIN kept |-> kept[k].game_mile_hours_burden[1]]

\* src/metrics_normalized.py l.35-37: the distances of the schedule that are not None
non_null_distances(schedule) ==
    LET kept == SelectSeq(schedule, LAMBDA game : game.travel_distance # None)
    IN  [k \in DOMAIN kept |-> Frac(kept[k].travel_distance[1], 1)]

\* Mutant of calculate_average_burden: the sum is divided by the number of games
calculate_average_burden_per_game(mapping) ==
    [team \in DOMAIN mapping |->
        IF mapping[team] = None THEN None
        ELSE IF Len(non_null_burdens(mapping[team][1])) > 0
        THEN Some(float_div(float_sum(non_null_burdens(mapping[team][1])),
                            Frac(Len(mapping[team][1]), 1)))
        ELSE None]

\* src/metrics.py l.86-108
calculate_average_burden(mapping) ==
    [team \in DOMAIN mapping |->
        IF mapping[team] = None THEN None
        ELSE IF Len(non_null_burdens(mapping[team][1])) > 0
        THEN Some(float_div(float_sum(non_null_burdens(mapping[team][1])),
                            Frac(Len(non_null_burdens(mapping[team][1])), 1)))
        ELSE None]

\* Mutant of calculate_total_burden: a schedule without burdens totals 0
calculate_total_burden_zero(mapping) ==
    [team \in DOMAIN mapping |->
        IF mapping[team] = None THEN None
        ELSE Some(float_sum(non_null_burdens(mapping[team][1])))]

\* src/metrics.py l.127-149
calculate_total_burden(mapping) ==
    [team \in DOMAIN mapping |->
        IF mapping[team] = None THEN None
        ELSE IF Len(non_null_burdens(mapping[team][1])) > 0
        THEN Some(float_sum(non_null_burdens(mapping[team][1])))
        ELSE None]

\* src/metrics_normalized.py l.23-45
calculate_total_distance(mapping) ==
    [team \in DOMAIN mapping |->
        IF mapping[team] = None THEN None
        ELSE IF Len(non_null_distances(mapping[team][1])) > 0
        THEN Some(float_sum(non_null_distances(mapping[team][1])))
        ELSE None]

\* the games of the Heat on three days, a game of the other two teams, and a row
\* whose date does not parse
MetricsRows ==
    ScenarioRows \cup {r \in ScenarioOtherRows : r.home = Kings}
        \cup {r \in UnparseableRows : r.date = << >>}

MetricsTables == UNION {[1..n -> MetricsRows] : n \in 0..MaxRows}

InitMetrics ==
    /\ regular_season_data \in MetricsTables
    /\ team_coords = AllStadiums
    /\ distance_df \in {ScenarioMatrix, matrix_maker(Restrict(AllStadiums, {KingsTypo, Heat}))}
    /\ team_name = ""
    /\ pc = "idle"
    /\ team_games = << >>
    /\ idx = 0
    /\ game_list = << >>
    /\ error = ""
    /\ warning = None
    /\ mpc = "begin"
    /\ all_teams = << >>
    /\ team_i = 0
    /\ schedule_mapping = << >>
    /\ NotCalled

\* the variables of schedulizer and of create_schedule_mapping
upstream ==
    <<regular_season_data, distance_df, team_coords, team_name, pc, team_games,
      idx, game_list, error, warning, mpc, all_teams, team_i, schedule_mapping>>

\* calculate_average_burden(schedule_mapping), the mapping being given
CalculateAverageBurden ==
    /\ mpc = "finished"
    /\ average_burdens = None
    /\ average_burdens' = Some(calculate_average_burden(schedule_mapping))
    /\ UNCHANGED <<upstream, total_burdens, total_distances, cumulative_burdens,
                   normalized_distances, normalized_burdens, average_distances,
                   BTY_data, time_raw, start_et, parsed>>

\* calculate_total_burden(schedule_mapping)
CalculateTotalBurden ==
    /\ mpc = "finished"
    /\ total_burdens = None
    /\ total_burdens' = Some(calculate_total_burden(schedule_mapping))
    /\ UNCHANGED <<upstream, average_burdens, total_distances, cumulative_burdens,
                   normalized_distances, normalized_burdens, average_distances,
                   BTY_data, time_raw, start_et, parsed>>

\* calculate_total_distance(schedule_mapping)
CalculateTotalDistance ==
    /\ mpc = "finished"
    /\ total_distances = None
    /\ total_distances' = Some(calculate_total_distance(schedule_mapping))
    /\ UNCHANGED <<upstream, average_burdens, total_burdens, cumulative_burdens,
                   normalized_distances, normalized_burdens, average_distances,
                   BTY_data, time_raw, start_et, parsed>>

RECURSIVE running_total(_, _)
\* src/visualize_burden.py l.31-38: running_total after the first k games
running_total(schedule, k) ==
    IF k = 0 THEN Frac(0, 1)
    ELSE IF schedule[k].game_mile_hours_burden # None
    THEN float_add(running_total(schedule, k - 1), schedule[k].game_mile_hours_burden[1])
    ELSE running_total(schedule, k - 1)

\* Mutant of calculate_cumulative_burden: a game without burden is left out of
\* the arrays
calculate_cumulative_burden_skipping(schedule) ==
    IF schedule = None THEN [game_numbers |-> None, cumulative_burdens |-> None]
    ELSE LET kept == SelectSeq([k \in DOMAIN schedule[1] |-> k],
                               LAMBDA k : schedule[1][k].game_mile_hours_burden # None)
         IN  [game_numbers |-> Some([j \in DOMAIN kept |-> schedule[1][kept[j]].gameindex]),
              cumulative_burdens |->
                  Some([j \in DOMAIN kept |-> running_total(schedule[1], kept[j])])]

\* src/visualize_burden.py l.15-43, schedule being None or Some(list)
calculate_cumulative_burden(schedule) ==
    IF schedule = None THEN [game_numbers |-> None, cumulative_burdens |-> None]
    ELSE [game_numbers |-> Some([k \in DOMAIN schedule[1] |-> schedule[1][k].gameindex]),
          cumulative_burdens |->
              Some([k \in DOMAIN schedule[1] |-> running_total(schedule[1], k)])]

\* src/visualize_burden.py l.67-74: the cumulative burden of a team's schedule,
\* here for every team of the mapping
CalculateCumulativeBurden ==
    /\ mpc = "finished"
    /\ cumulative_burdens = None
    /\ cumulative_burdens' =
          Some([team \in DOMAIN schedule_mapping |->
                   calculate_cumulative_burden(schedule_mapping[team])])
    /\ UNCHANGED <<upstream, average_burdens, total_burdens, total_distances,
                   normalized_distances, normalized_burdens, average_distances,
                   BTY_data, time_raw, start_et, parsed>>


-----------------------------------------------------------------------------
(* calculate_average_distances and create_BTY_dataframe (src/analysis.py) *)

\* l.33: the columns of the team's row that hold a cell other than 0.0
non_zero_columns(matrix, team) ==
    {c \in matrix.keys : matrix.cell[<<team, c>>] # 0}

RECURSIVE cell_sum(_, _, _)
\* l.36: the sum of the team's cells in the columns cols
cell_sum(matrix, team, cols) ==
    IF cols = {} THEN 0
    ELSE LET c == CHOOSE x \in cols : TRUE
         IN  matrix.cell[<<team, c>>] + cell_sum(matrix, team, cols \ {c})

\* Mutant of calculate_average_distances: only the diagonal cell is left out
calculate_average_distances_off_diagonal(matrix) ==
    [team \in {t \in matrix.keys : matrix.keys \ {t} # {}} |->
        float_div(Frac(cell_sum(matrix, team, matrix.keys \ {team}), 1),
                  Frac(Cardinality(matrix.keys \ {team}), 1))]

\* l.5-39: team -> mean of the non-zero cells of its row, for the rows that
\* have one
calculate_average_distances(matrix) ==
    [team \in {t \in matrix.keys : non_zero_columns(matrix, t) # {}} |->
        float_div(Frac(cell_sum(matrix, team, non_zero_columns(matrix, team)), 1),
                  Frac(Cardinality(non_zero_columns(matrix, team)), 1))]

\* l.43-62: the rows of the DataFrame, by team
create_BTY_dataframe(matrix) ==
    [team \in DOMAIN calculate_average_distances(matrix) |->
        [average_distance |-> calculate_average_distances(matrix)[team],
         average_yearly_road_trip |->
             lowest_terms([num |-> calculate_average_distances(matrix)[team].num
                                      * SeasonRoadGames,
                           den |-> calculate_average_distances(matrix)[team].den])]]

\* distance files of three teams with any cells among 0, 300 and 500 miles
AnalysisMatrices ==
    {[keys |-> DOMAIN Rank, cell |-> c] :
        c \in [(DOMAIN Rank) \X (DOMAIN Rank) -> {0, 300, 500}]}

InitAnalysis ==
    /\ regular_season_data = << >>
    /\ team_coords = AllStadiums
    /\ distance_df \in AnalysisMatrices
    /\ team_name = ""
    /\ pc = "idle"
    /\ team_games = << >>
    /\ idx = 0
    /\ game_list = << >>
    /\ error = ""
    /\ warning = None
    /\ mpc = "single"
    /\ all_teams = << >>
    /\ team_i = 0
    /\ schedule_mapping = << >>
    /\ NotCalled

\* calculate_average_distances(csv_file)
CalculateAverageDistances ==
    /\ average_distances = None
    /\ average_distances' = Some(calculate_average_distances(distance_df))
    /\ UNCHANGED <<upstream, average_burdens, total_burdens, total_distances,
                   cumulative_burdens, normalized_distances, normalized_burdens,
                   BTY_data, time_raw, start_et, parsed>>

\* l.66: BTY_data = create_BTY_dataframe(csv_file)
CreateBTYDataframe ==
    /\ BTY_data = None
    /\ BTY_data' = Some(create_BTY_dataframe(distance_df))
    /\ UNCHANGED <<upstream, average_burdens, total_burdens, total_distances,
                   cumulative_burdens, normalized_distances, normalized_burdens,
                   average_distances, time_raw, start_et, parsed>>

NextAnalysis == CalculateAverageDistances \/ CreateBTYDataframe

SpecAnalysis == InitAnalysis /\ [][NextAnalysis]_vars

-----------------------------------------------------------------------------
(* The normalized totals (src/metrics_normalized.py l.58-177) *)

\* src/metrics_normalized.py l.86-93: name -> average_yearly_road_trip, under
\* the team's name in the frame and under its normalized name (the frames here
\* hold one spelling of a team)
avg_road_trip_map(bty_dataframe) ==
    [name \in DOMAIN bty_dataframe
                 \cup {metrics_normalize_team_name(t) : t \in DOMAIN bty_dataframe} |->
        bty_dataframe[CHOOSE t \in DOMAIN bty_dataframe :
                          name \in {t, metrics_normalize_team_name(t)}]
            .average_yearly_road_trip]

\* l.105-108: the value found under the team's name, else under its normalized
\* name, else None
find_avg_road_trip(road_trips, team) ==
    IF team \in DOMAIN road_trips THEN Some(road_trips[team])
    ELSE IF metrics_normalize_team_name(team) \in DOMAIN road_trips
    THEN Some(road_trips[metrics_normalize_team_name(team)])
    ELSE None

\* Mutant of normalize_totals: the team is looked up under its own name only
normalize_totals_own_name(totals, bty_dataframe) ==
    [team \in DOMAIN totals |->
        IF totals[team] = None THEN None
        ELSE IF /\ team \in DOMAIN avg_road_trip_map(bty_dataframe)
                /\ avg_road_trip_map(bty_dataframe)[team].num > 0
        THEN Some(float_div(totals[team][1], avg_road_trip_map(bty_dataframe)[team]))
        ELSE None]

\* l.95-116 and l.156-177: the totals divided by the teams' yearly road trips
normalize_totals(totals, bty_dataframe) ==
    [team \in DOMAIN totals |->
        IF totals[team] = None THEN None
        ELSE IF /\ find_avg_road_trip(avg_road_trip_map(bty_dataframe), team) # None
                /\ find_avg_road_trip(avg_road_trip_map(bty_dataframe), team)[1].num > 0
        THEN Some(float_div(totals[team][1],
                            find_avg_road_trip(avg_road_trip_map(bty_dataframe), team)[1]))
        ELSE None]

\* calculate_normalized_total_distance(schedule_mapping), the frame made from
\* the distance file (l.58-116)
CalculateNormalizedTotalDistance ==
    /\ mpc = "finished"
    /\ normalized_distances = None
    /\ normalized_distances' =
          Some(normalize_totals(calculate_total_distance(schedule_mapping),
                                create_BTY_dataframe(distance_df)))
    /\ UNCHANGED <<upstream, average_burdens, total_burdens, total_distances,
                   cumulative_burdens, normalized_burdens, average_distances,
                   BTY_data, time_raw, start_et, parsed>>

\* calculate_normalized_total_burden(schedule_mapping) (l.119-177)
CalculateNormalizedTotalBurden ==
    /\ mpc = "finished"
    /\ normalized_burdens = None
    /\ normalized_burdens' =
          Some(normalize_totals(calculate_total_burden(schedule_mapping),
                                create_BTY_dataframe(distance_df)))
    /\ UNCHANGED <<upstream, average_burdens, total_burdens, total_distances,
                   cumulative_burdens, normalized_distances, average_distances,
                   BTY_data, time_raw, start_et, parsed>>

NextMetrics ==
    \/ NextMapping
    \/ CalculateAverageBurden \/ CalculateTotalBurden \/ CalculateTotalDistance
    \/ CalculateCumulativeBurden
    \/ CalculateNormalizedTotalDistance \/ CalculateNormalizedTotalBurden

SpecMetrics == InitMetrics /\ [][NextMetrics]_vars

-----------------------------------------------------------------------------
(* convert_time_format (src/html_reader.py l.248-271) and the time pattern of
   parse_datetime (src/schedulizer.py l.91-104).  A text is the sequence of
   its characters. *)

Digit == <<"0", "1", "2", "3", "4", "5", "6", "7", "8", "9">>

IsDigit(c) == \E d \in DOMAIN Digit : Digit[d] = c

\* int() of one digit
digit_value(c) == (CHOOSE d \in DOMAIN Digit : Digit[d] = c) - 1

RECURSIVE int(_)
\* int() of a run of digits
int(text) ==
    IF text = << >> THEN 0
    ELSE 10 * int(SubSeq(text, 1, Len(text) - 1)) + digit_value(text[Len(text)])

RECURSIVE str(_)
\* the decimal digits of a number that is not negative
str(n) == IF n < 10 THEN <<Digit[n + 1]>> ELSE str(n \div 10) \o <<Digit[(n % 10) + 1]>>

\* the position after the longest run of c-characters (digits, or blanks)
\* that starts at position from
run_end(text, from, chars) ==
    CHOOSE e \in from..(Len(text) + 1) :
        /\ \A k \in from..(e - 1) : text[k] \in chars
        /\ e <= Len(text) => text[e] \notin chars

DigitSet == {Digit[d] : d \in DOMAIN Digit}

\* str.strip()
strip(text) ==
    IF \A k \in DOMAIN text : text[k] = " " THEN << >>
    ELSE SubSeq(text,
                CHOOSE a \in DOMAIN text :
                    text[a] # " " /\ \A k \in 1..(a - 1) : text[k] = " ",
                CHOOSE b \in DOMAIN text :
                    text[b] # " " /\ \A k \in (b + 1)..Len(text) : text[k] = " ")

\* str.upper() and str.lower() of one character
upper_char(c) == IF c = "a" THEN "A" ELSE IF c = "p" THEN "P" ELSE IF c = "m" THEN "M" ELSE c

lower_char(c) == IF c = "A" THEN "a" ELSE IF c = "P" THEN "p" ELSE IF c = "M" THEN "m" ELSE c

upper(text) == [k \in DOMAIN text |-> upper_char(text[k])]

\* re.match(r'(\d+):(\d+)\s*(AM|PM)', text): the three groups, << >> for no match
match_raw_time(text) ==
    LET e1 == run_end(text, 1, DigitSet)
        e2 == run_end(text, e1 + 1, DigitSet)
        e3 == run_end(text, e2, {" "})
    IN  IF /\ e1 > 1
           /\ e1 <= Len(text) /\ text[e1] = ":"
           /\ e2 > e1 + 1
           /\ e3 + 1 <= Len(text)
           /\ text[e3] \in {"A", "P"} /\ text[e3 + 1] = "M"
        THEN <<SubSeq(text, 1, e1 - 1), SubSeq(text, e1 + 1, e2 - 1),
               SubSeq(text, e3, e3 + 1)>>
        ELSE << >>

\* Mutant of convert_time_format: the meridiem is dropped
convert_time_format_no_meridiem(time_raw_text) ==
    IF match_raw_time(upper(strip(time_raw_text))) # << >>
    THEN str(int(match_raw_time(upper(strip(time_raw_text)))[1])) \o <<":">>
             \o match_raw_time(upper(strip(time_raw_text)))[2]
    ELSE upper(strip(time_raw_text))

\* src/html_reader.py l.248-271
convert_time_format(time_raw_text) ==
    IF match_raw_time(upper(strip(time_raw_text))) # << >>
    THEN str(int(match_raw_time(upper(strip(time_raw_text)))[1])) \o <<":">>
             \o match_raw_time(upper(strip(time_raw_text)))[2]
             \o <<lower_char(match_raw_time(upper(strip(time_raw_text)))[3][1])>>
    ELSE upper(strip(time_raw_text))

\* src/schedulizer.py l.92 and l.96-98: re.match(r'(\d+):(\d+)([ap])', text) and
\* the int() of its groups: <<hour, minute, am_pm>>, << >> for no match
match_start_time(text) ==
    LET e1 == run_end(text, 1, DigitSet)
        e2 == run_end(text, e1 + 1, DigitSet)
    IN  IF /\ e1 > 1
           /\ e1 <= Len(text) /\ text[e1] = ":"
           /\ e2 > e1 + 1
           /\ e2 <= Len(text) /\ text[e2] \in {"a", "p"}
        THEN <<int(SubSeq(text, 1, e1 - 1)), int(SubSeq(text, e1 + 1, e2 - 1)), text[e2]>>
        ELSE << >>

\* src/schedulizer.py l.91-107, the time of day: the error raised, or the hour
\* and minute handed to datetime()
parse_time(text) ==
    IF Len(match_start_time(text)) # 3
    THEN [error |-> "ValueError: Could not parse time", value |-> None]
    ELSE [error |-> "",
          value |-> Some(<<to_24_hour(match_start_time(text)[1], match_start_time(text)[3]),
                           match_start_time(text)[2]>>)]

\* two digits of a minute
two_digits(m) == <<Digit[(m \div 10) + 1], Digit[(m % 10) + 1]>>

\* the texts scraped: "h:mm AM" and "h:mm PM", also in lower case, without the
\* blank or with blanks around, a time without meridiem, and cells without a
\* time
ScrapedTimes ==
    UNION {{str(h) \o <<":">> \o two_digits(m) \o <<" ">> \o mer,
            str(h) \o <<":">> \o two_digits(m) \o mer,
            <<" ">> \o str(h) \o <<":">> \o two_digits(m) \o <<" ">> \o mer \o <<" ">>,
            str(h) \o <<":">> \o two_digits(m)} :
              h \in 1..12, m \in 0..59,
              mer \in {<<"A", "M">>, <<"P", "M">>, <<"a", "m">>, <<"p", "m">>}}
        \cup {<< >>, <<"T", "B", "D">>}

InitScrape ==
    /\ regular_season_data = << >>
    /\ team_coords = AllStadiums
    /\ distance_df = OtherMatrix
    /\ team_name = ""
    /\ pc = "idle"
    /\ team_games = << >>
    /\ idx = 0
    /\ game_list = << >>
    /\ error = ""
    /\ warning = None
    /\ mpc = "single"
    /\ all_teams = << >>
    /\ team_i = 0
    /\ schedule_mapping = << >>
    /\ average_burdens = None
    /\ total_burdens = None
    /\ total_distances = None
    /\ cumulative_burdens = None
    /\ normalized_distances = None
    /\ normalized_burdens = None
    /\ average_distances = None
    /\ BTY_data = None
    /\ time_raw \in ScrapedTimes
    /\ start_et = None
    /\ parsed = None

\* src/html_reader.py l.494-497: the scraped time is converted for the file;
\* a cell without a colon gets the default time
ConvertTime ==
    /\ start_et = None
    /\ start_et' = IF \E k \in DOMAIN time_raw : time_raw[k] = ":"
                   THEN Some(convert_time_format(time_raw))
                   ELSE Some(<<"7", ":", "0", "0", "p">>)
    /\ UNCHANGED <<upstream, average_burdens, total_burdens, total_distances,
                   cumulative_burdens, normalized_distances, normalized_burdens,
                   average_distances, BTY_data, time_raw, parsed>>

\* src/schedulizer.py l.91-104: parse_datetime reads the time from the file
ParseTime ==
    /\ start_et # None
    /\ parsed = None
    /\ parsed' = Some(parse_time(start_et[1]))
    /\ UNCHANGED <<upstream, average_burdens, total_burdens, total_distances,
                   cumulative_burdens, normalized_distances, normalized_burdens,
                   average_distances, BTY_data, time_raw, start_et>>

NextScrape == ConvertTime \/ ParseTime

SpecScrape == InitScrape /\ [][NextScrape]_vars

-----------------------------------------------------------------------------
(* schedulizer on schedules with games at both venues of INTERNATIONAL_ARENAS
   (l.43-46), either team the home team *)

\* Heat and Wizards meeting at the two international venues, and at home
AbroadRows ==
    {Row(t[1], t[2], m[1], m[2], arena) :
        t \in GameTimes,
        m \in {<<Heat, Wizards>>, <<Wizards, Heat>>},
        arena \in {MexicoCity, AccorHotels}}
    \cup {Row(t[1], t[2], Wizards, Heat, HomeArena) : t \in GameTimes}

AbroadTables == UNION {[1..n -> AbroadRows] : n \in 0..MaxRows}

\* the stadium table may hold neither of the two teams
InitAbroad ==
    /\ regular_season_data \in AbroadTables
    /\ team_coords \in {AllStadiums, Restrict(AllStadiums, {KingsTypo})}
    /\ distance_df = OtherMatrix
    /\ team_name \in Teams
    /\ pc = "start"
    /\ team_games = << >>
    /\ idx = 0
    /\ game_list = << >>
    /\ error = ""
    /\ warning = None
    /\ mpc = "single"
    /\ all_teams = << >>
    /\ team_i = 0
    /\ schedule_mapping = << >>
    /\ NotCalled

SpecAbroad == InitAbroad /\ [][Next]_vars

-----------------------------------------------------------------------------
(* What the claims speak of, stated on the inputs and the returned list     *)
(* without the operators of the model above.                                *)

Returned == pc = "done"

Raised == pc = "raised"

Terminated == Returned \/ Raised

InternationalVenues == {"Mexico City Arena", "AccorHotels Arena"}

\* positions of the season rows in which the team is visitor or home
GamesOf(team) ==
    {i \in DOMAIN regular_season_data :
        team \in {regular_season_data[i].visitor, regular_season_data[i].home}}

Parseable(row) == Len(row.date) = 4 /\ Len(row.start) = 3

AllGamesParseable ==
    \A i \in GamesOf(team_name) : Parseable(regular_season_data[i])

StadiumSpelling(name) ==
    IF name = "Sacramento Kings" THEN "Sacremento Kings" ELSE name

\* a game played at a regular venue whose home team has no stadium coordinates
NoCoordinates(game) ==
    /\ game.row.arena \notin InternationalVenues
    /\ StadiumSpelling(game.row.home) \notin DOMAIN team_coords

\* leg k+1 of the sorted schedule goes to or from an international venue and has an
\* endpoint without coordinates
UnlocatedLeg(k) ==
    /\ \/ team_games[k].row.arena \in InternationalVenues
       \/ team_games[k + 1].row.arena \in InternationalVenues
    /\ NoCoordinates(team_games[k]) \/ NoCoordinates(team_games[k + 1])

SomeUnlocatedLeg == \E k \in 1..(Len(team_games) - 1) : UnlocatedLeg(k)

IndexedInOrder ==
    /\ \A k \in DOMAIN game_list : game_list[k].gameindex = k
    /\ \A k \in DOMAIN game_list :
          k > 1 => game_list[k - 1].game_datetime <= game_list[k].game_datetime

-----------------------------------------------------------------------------
(* C1 *)

-----------------------------------------------------------------------------
(* C2 *)

NullTravel(rec) ==
    /\ rec.previous_game_datetime = None
    /\ rec.previous_where_played = None
    /\ rec.travel_distance = None
    /\ rec.travel_hours = None
    /\ rec.game_mile_hours_burden = None

\* C2: the first record of a chain has previous_game_datetime,
\* previous_where_played, travel_distance, travel_hours and
\* game_mile_hours_burden all null; a later record has none of them null, except
\* the burden when its travel_hours is not positive.
C2_NullsOnlyOnFirst ==
    \A k \in DOMAIN game_list :
        IF k = 1 THEN NullTravel(game_list[k])
        ELSE /\ game_list[k].previous_game_datetime # None
             /\ game_list[k].previous_where_played # None
             /\ game_list[k].travel_distance # None
             /\ game_list[k].travel_hours # None
             /\ game_list[k].game_mile_hours_burden = None
                    => game_list[k].travel_hours[1].num <= 0

\* a returned chain with a later record whose burden is null and one whose
\* burden is not
C2_Witness ==
    /\ Returned
    /\ \E j, k \in DOMAIN game_list :
          /\ j > 1 /\ k > 1
          /\ game_list[j].game_mile_hours_burden = None
          /\ game_list[k].game_mile_hours_burden # None

-----------------------------------------------------------------------------
(* C3 *)

\* C3: for every record after the first, game_mile_hours_burden is
\* travel_distance / travel_hours when travel_hours > 0 and null otherwise; two
\* consecutive games with the same date_time give travel_hours = 0 and a null
\* burden, and the division never raises.
C3_BurdenIsGuardedRatio ==
    /\ error # "ZeroDivisionError"
    /\ \A k \in DOMAIN game_list :
          k > 1 =>
             LET rec == game_list[k]
                 hours == rec.travel_hours[1]
                 miles == rec.travel_distance[1]
             IN  /\ IF hours.num > 0
                    THEN /\ rec.game_mile_hours_burden # None
                         /\ rec.game_mile_hours_burden[1].den # 0
                         /\ rec.game_mile_hours_burden[1].num * hours.num
                               = miles * hours.den * rec.game_mile_hours_burden[1].den
                    ELSE rec.game_mile_hours_burden = None
                 /\ rec.game_datetime = game_list[k - 1].game_datetime
                       => hours.num = 0 /\ rec.game_mile_hours_burden = None
    /\ \A k \in 1..(Len(team_games) - 1) :
          (/\ pc \in {"loop", "done"}
           /\ k < idx
           /\ team_games[k].game_datetime = team_games[k + 1].game_datetime)
              => /\ game_list[k + 1].travel_hours[1].num = 0
                 /\ game_list[k + 1].game_mile_hours_burden = None

\* a returned chain with two consecutive games at the same instant, a third game
\* later, and a leg with a positive distance and a defined burden
C3_Witness ==
    /\ Returned
    /\ Len(game_list) >= 3
    /\ game_list[1].game_datetime = game_list[2].game_datetime
    /\ game_list[2].travel_hours[1].num = 0
    /\ game_list[2].game_mile_hours_burden = None
    /\ game_list[3].travel_distance[1] > 0
    /\ game_list[3].game_mile_hours_burden # None

-----------------------------------------------------------------------------
(* C4 *)

International(game) == game.row.arena \in InternationalVenues

\* where a game is played: the international arena's coordinates, or the home
\* team's stadium
VenuePoint(game) ==
    IF International(game) THEN INTERNATIONAL_ARENAS[game.row.arena]
    ELSE team_coords[StadiumSpelling(game.row.home)]

\* C4 as stated: a record after the first whose where_played equals its
\* previous_where_played has travel_distance 0.0, international or not.
C4_SameWherePlayedIsZero ==
    \A k \in DOMAIN game_list :
        (k > 1 /\ game_list[k].previous_where_played = Some(game_list[k].where_played))
            => game_list[k].travel_distance = Some(0)

\* C4 as amended: a record after the first whose where_played equals its
\* previous_where_played has travel_distance 0.0 exactly, whatever the matrix
\* contains, when neither game is international or when both are played at the
\* same international venue; when only one of the two games is international the
\* distance is the geodesic between the venue and the home team's stadium.
C4_SameVenueIsZero ==
    \A k \in DOMAIN game_list :
        (k > 1 /\ game_list[k].previous_where_played = Some(game_list[k].where_played))
            => /\ (~International(team_games[k - 1]) /\ ~International(team_games[k]))
                     => game_list[k].travel_distance = Some(0)
               /\ (/\ International(team_games[k - 1])
                   /\ team_games[k - 1].row.arena = team_games[k].row.arena)
                     => game_list[k].travel_distance = Some(0)
               /\ (International(team_games[k - 1]) # International(team_games[k]))
                     => game_list[k].travel_distance
                           = Some(geodesic(VenuePoint(team_games[k - 1]),
                                           VenuePoint(team_games[k])))

\* two consecutive regular games at the same home team's venue, while the matrix
\* holds a non-zero cell for that team against itself
C4_Witness ==
    /\ Returned
    /\ \E k \in DOMAIN game_list :
          /\ k > 1
          /\ game_list[k].previous_where_played = Some(game_list[k].where_played)
          /\ ~International(team_games[k - 1]) /\ ~International(team_games[k])
          /\ StadiumSpelling(game_list[k].where_played) \in distance_df.keys
          /\ distance_df.cell[<<StadiumSpelling(game_list[k].where_played),
                                StadiumSpelling(game_list[k].where_played)>>] # 0
          /\ game_list[k].travel_distance = Some(0)

-----------------------------------------------------------------------------
(* C5 *)

SymmetricMatrix ==
    \A a, b \in distance_df.keys :
        distance_df.cell[<<a, b>>] = distance_df.cell[<<b, a>>]

\* the venue of game g as a leg's endpoint: the international arena, or the home team
Endpoint(game) ==
    IF International(game) THEN game.row.arena ELSE game.row.home

\* C5: with a symmetric distance matrix, two legs of a chain between the same two
\* endpoints in opposite directions (same international flags on the
\* corresponding endpoints) have the same travel_distance.
C5_LegSymmetry ==
    SymmetricMatrix =>
        \A j, k \in DOMAIN game_list :
            (/\ j > 1 /\ k > 1
             /\ Endpoint(team_games[j - 1]) = Endpoint(team_games[k])
             /\ Endpoint(team_games[j]) = Endpoint(team_games[k - 1])
             /\ International(team_games[j - 1]) = International(team_games[k])
             /\ International(team_games[j]) = International(team_games[k - 1]))
                => game_list[j].travel_distance = game_list[k].travel_distance

\* a returned chain that goes from the Kings' venue to another and back, over a
\* symmetric matrix, both legs with the same positive distance
C5_Witness ==
    /\ Returned
    /\ SymmetricMatrix
    /\ Len(game_list) >= 3
    /\ game_list[1].where_played = "Sacramento Kings"
    /\ game_list[2].where_played # "Sacramento Kings"
    /\ game_list[3].where_played = "Sacramento Kings"
    /\ \A k \in 1..3 : ~International(team_games[k])
    /\ game_list[2].travel_distance[1] > 0
    /\ game_list[2].travel_distance = game_list[3].travel_distance

-----------------------------------------------------------------------------
(* C6 *)

\* every name the tables and the call hold
NamesInPlay ==
    {team_name} \cup distance_df.keys \cup DOMAIN team_coords
        \cup {regular_season_data[i].visitor : i \in DOMAIN regular_season_data}
        \cup {regular_season_data[i].home : i \in DOMAIN regular_season_data}
        \cup {"Sacramento Kings", "Sacremento Kings", "Unknown Team"}

\* C6: each copy of the normalizer is idempotent and returns every name but
\* "Sacramento Kings" unchanged, and the three copies agree on every name.
C6_NormalizerIdempotent ==
    \A x \in NamesInPlay :
        /\ normalize_team_name(normalize_team_name(x)) = normalize_team_name(x)
        /\ normalize_team_name_for_coords(normalize_team_name_for_coords(x))
              = normalize_team_name_for_coords(x)
        /\ metrics_normalize_team_name(metrics_normalize_team_name(x))
              = metrics_normalize_team_name(x)
        /\ x # "Sacramento Kings" => normalize_team_name(x) = x
        /\ normalize_team_name(x) = normalize_team_name_for_coords(x)
        /\ normalize_team_name(x) = metrics_normalize_team_name(x)

\* a returned record whose distance was read from the matrix under the Kings'
\* typo spelling, the schedule naming them canonically
C6_Witness ==
    /\ Returned
    /\ "Sacremento Kings" \in distance_df.keys
    /\ "Sacramento Kings" \notin distance_df.keys
    /\ \E k \in DOMAIN game_list :
          /\ k > 1
          /\ game_list[k].where_played = "Sacramento Kings"
          /\ game_list[k].previous_where_played = Some("Miami Heat")
          /\ ~International(team_games[k - 1]) /\ ~International(team_games[k])
          /\ game_list[k].travel_distance
                = Some(distance_df.cell[<<"Miami Heat", "Sacremento Kings">>])
          /\ game_list[k].travel_distance[1] > 0

-----------------------------------------------------------------------------
(* C7 *)

\* C7: in every record, travel_distance is not negative when defined and
\* game_mile_hours_burden is >= 0 when defined (the matrix holding no negative
\* cell).
C7_NonNegative ==
    \A k \in DOMAIN game_list :
        /\ game_list[k].travel_distance # None => game_list[k].travel_distance[1] >= 0
        /\ game_list[k].game_mile_hours_burden # None
              => /\ game_list[k].game_mile_hours_burden[1].den > 0
                 /\ game_list[k].game_mile_hours_burden[1].num >= 0

\* a returned chain with a leg whose team is missing from the matrix (distance
\* 0.0) and a defined burden
C7_Witness ==
    /\ Returned
    /\ \E k \in DOMAIN game_list :
          /\ k > 1
          /\ ~International(team_games[k - 1]) /\ ~International(team_games[k])
          /\ StadiumSpelling(game_list[k].where_played) \notin distance_df.keys
          /\ game_list[k].travel_distance = Some(0)
          /\ game_list[k].game_mile_hours_burden # None

-----------------------------------------------------------------------------
(* C8 *)

\* C8: the chain built for a team has one record for each season row in which
\* the team is visitor or home, and none for any other row.
C8_ExactlyTheTeamsRows ==
    /\ pc \in {"parse", "sort", "loop", "done"}
          => /\ {team_games[k].src : k \in DOMAIN team_games} = GamesOf(team_name)
             /\ Len(team_games) = Cardinality(GamesOf(team_name))
    /\ pc \in {"loop", "done"}
          => \A k \in DOMAIN game_list :
                 LET row == regular_season_data[team_games[k].src]
                 IN  /\ game_list[k].team = team_name
                     /\ game_list[k].where_played = row.home
                     /\ {game_list[k].team, game_list[k].opponent}
                           = {row.visitor, row.home}
                     /\ game_list[k].location = "home" <=> row.home = team_name
    /\ Returned => Len(game_list) = Cardinality(GamesOf(team_name))

\* a chain returned from a table that also holds a row of two other teams, the
\* team being visitor in one of its games and home in another
C8_Witness ==
    /\ Returned
    /\ \E i \in DOMAIN regular_season_data : i \notin GamesOf(team_name)
    /\ \E j, k \in DOMAIN game_list :
          game_list[j].location = "home" /\ game_list[k].location = "away"

-----------------------------------------------------------------------------
(* C9 *)

\* C9: game_datetime never decreases along a chain, whatever the order of the
\* rows in the season table.
C9_NonDecreasingDatetime ==
    \A k \in DOMAIN game_list :
        k > 1 => game_list[k].game_datetime >= game_list[k - 1].game_datetime

\* a returned chain whose first game was the last of the team's rows in the table
C9_Witness ==
    /\ Returned
    /\ Len(game_list) >= 2
    /\ \A k \in DOMAIN team_games : k > 1 => team_games[1].src > team_games[k].src
    /\ game_list[1].game_datetime < game_list[Len(game_list)].game_datetime

-----------------------------------------------------------------------------
(* C10 *)

\* C10 as stated: two games of the team with the same date_time appear in the
\* chain in the order of their rows in the season table.
C10_StableSort ==
    Returned =>
        \A i, j \in DOMAIN game_list :
            (i < j /\ game_list[i].game_datetime = game_list[j].game_datetime)
                => team_games[i].src < team_games[j].src

\* C10 as amended: the sort keeps every game of the team exactly once and puts
\* two games with different date_time in the order of their date_time, wherever
\* their rows stand in the table; two games with the same date_time appear in
\* either order.
C10_SortOrdersByTimeOnly ==
    pc \in {"loop", "done"} =>
        /\ \A a \in GamesOf(team_name) :
              Cardinality({k \in DOMAIN team_games : team_games[k].src = a}) = 1
        /\ \A i, j \in DOMAIN team_games :
              team_games[i].game_datetime < team_games[j].game_datetime => i < j

\* a returned chain with two games at the same instant, in the reverse of their
\* table order, followed by a later game
C10_Witness ==
    /\ Returned
    /\ Len(game_list) >= 3
    /\ game_list[1].game_datetime = game_list[2].game_datetime
    /\ team_games[1].src > team_games[2].src
    /\ game_list[2].game_datetime < game_list[3].game_datetime

-----------------------------------------------------------------------------
(* C11 *)

-----------------------------------------------------------------------------
(* C12 *)

\* C12: for a team with between 1 and 81 games schedulizer only prints the
\* warning with the number of games: the short count is never the reason of a
\* failure, and the chain that is returned has one record per game of the team,
\* each built by the rule of the later records (gameindex, home team of the
\* row, distance, hours and burden of the leg from the game before).
C12_ShortSeasonOnlyWarns ==
    (pc \in {"loop", "done", "raised"}
        /\ Len(team_games) >= 1 /\ Len(team_games) < ExpectedGames)
        => /\ error # "ValueError: No games found"
           /\ AllGamesParseable => warning = Some(Cardinality(GamesOf(team_name)))
           /\ Returned => /\ Len(game_list) = Cardinality(GamesOf(team_name))
                          /\ game_list[1] = first_record(team_games[1], team_name)
                          /\ \A k \in 2..Len(game_list) :
                                game_list[k] = later_record(team_games[k - 1],
                                    team_games[k], k - 1, team_name, distance_df,
                                    team_coords)

\* a team with two games: the warning names two games and both records are
\* returned
C12_Witness ==
    /\ Returned
    /\ warning = Some(2)
    /\ Len(game_list) = 2
    /\ game_list[2].travel_distance # None

-----------------------------------------------------------------------------
(* C13 *)

\* the leg into game k of the sorted schedule joins two regular venues
RegularLeg(k) == ~International(team_games[k - 1]) /\ ~International(team_games[k])

\* the played-at team of game k has no label in the distance matrix
NotInMatrix(k) == StadiumSpelling(team_games[k].row.home) \notin distance_df.keys

\* C13: a leg between two regular venues whose previous or current played-at
\* team, normalized, is missing from the distance matrix gets travel_distance
\* 0.0; no leg between two regular venues makes schedulizer fail, and the chain
\* that is returned has a record for every game.
C13_MissingFromMatrixIsZero ==
    /\ \A k \in DOMAIN game_list :
          (k > 1 /\ RegularLeg(k) /\ (NotInMatrix(k - 1) \/ NotInMatrix(k)))
              => game_list[k].travel_distance = Some(0)
    /\ (Raised /\ idx >= 1)
          => International(team_games[idx]) \/ International(team_games[idx + 1])
    /\ Returned => Len(game_list) = Len(team_games)

\* a returned chain of three games whose second leg ends at a team missing from
\* the matrix, and whose third record was still produced
C13_Witness ==
    /\ Returned
    /\ Len(game_list) = 3
    /\ RegularLeg(2) /\ RegularLeg(3)
    /\ NotInMatrix(2) /\ ~NotInMatrix(1)
    /\ game_list[2].travel_distance = Some(0)
    /\ game_list[3].travel_hours # None

-----------------------------------------------------------------------------
(* C14 *)

-----------------------------------------------------------------------------
(* C15 *)

\* what the matrix holds for the leg into game k: the cell of the two played-at
\* teams in the stadium table's spelling, 0 on the diagonal and for a missing team
MatrixValue(k) ==
    IF NotInMatrix(k - 1) \/ NotInMatrix(k) THEN 0
    ELSE IF team_games[k - 1].row.home = team_games[k].row.home THEN 0
    ELSE distance_df.cell[<<StadiumSpelling(team_games[k - 1].row.home),
                            StadiumSpelling(team_games[k].row.home)>>]

\* C15: on every leg whose previous or current game is at a venue of the
\* international table, travel_distance is the geodesic distance between the
\* two endpoints (the venue's fixed coordinates for an international endpoint,
\* the home team's stadium otherwise), whatever the matrix holds for the two
\* teams; on every leg with no international endpoint it is the matrix value.
C15_InternationalLegIsGeodesic ==
    \A k \in DOMAIN game_list :
        k > 1 =>
            IF International(team_games[k - 1]) \/ International(team_games[k])
            THEN game_list[k].travel_distance =
                     Some(geodesic(VenuePoint(team_games[k - 1]),
                                   VenuePoint(team_games[k])))
            ELSE game_list[k].travel_distance = Some(MatrixValue(k))

\* a chain of three games with a matrix leg and a leg into an international
\* venue; both teams of the international leg have matrix entries, and the
\* distance recorded is not what the matrix holds for them
C15_Witness ==
    /\ Len(game_list) = 3
    /\ RegularLeg(2) /\ game_list[2].travel_distance[1] > 0
    /\ \E k \in {2, 3} :
          /\ ~International(team_games[k - 1]) /\ International(team_games[k])
          /\ ~NotInMatrix(k - 1) /\ ~NotInMatrix(k)
          /\ game_list[k].travel_distance # Some(MatrixValue(k))
          /\ game_list[k].travel_distance[1] > 0

-----------------------------------------------------------------------------
(* C16 *)

\* the row of the season table that record k was built from
SourceRow(k) == regular_season_data[team_games[k].src]

\* C16: where_played of every record is the home team of its row, never the
\* arena named in the row; previous_where_played of every record after the first
\* is the home team of the row of the game before.
C16_WherePlayedIsHomeTeam ==
    \A k \in DOMAIN game_list :
        /\ game_list[k].where_played = SourceRow(k).home
        /\ game_list[k].where_played # SourceRow(k).arena
        /\ k > 1 => game_list[k].previous_where_played = Some(SourceRow(k - 1).home)

\* an away game at an international arena is recorded at its home team, and
\* the next record names that team as where the previous game was played
C16_Witness ==
    /\ Len(game_list) = 3
    /\ SourceRow(2).arena = "Mexico City Arena"
    /\ game_list[2].location = "away"
    /\ game_list[2].where_played = "Washington Wizards"
    /\ game_list[3].previous_where_played = Some("Washington Wizards")
    /\ game_list[3].where_played # "Washington Wizards"

-----------------------------------------------------------------------------
(* C17 *)

\* C17: every record after the first is linked to the record before it:
\* its previous_game_datetime is that record's game_datetime, its
\* previous_where_played is that record's where_played, and its travel_hours is
\* the time from that record's game_datetime to its own, in hours; opponent and
\* location play no part.
C17_ChainLinkage ==
    \A k \in DOMAIN game_list :
        k > 1 =>
            /\ game_list[k].previous_game_datetime = Some(game_list[k - 1].game_datetime)
            /\ game_list[k].previous_where_played = Some(game_list[k - 1].where_played)
            /\ game_list[k].travel_hours # None
            /\ game_list[k].travel_hours[1].den > 0
            /\ game_list[k].travel_hours[1].num * 60 =
                   (game_list[k].game_datetime - game_list[k - 1].game_datetime)
                       * game_list[k].travel_hours[1].den

\* three linked records with different opponents, home and away, the second a
\* positive number of hours after the first
C17_Witness ==
    /\ Returned
    /\ Len(game_list) = 3
    /\ game_list[1].opponent # game_list[2].opponent
    /\ game_list[1].location # game_list[2].location
    /\ game_list[2].where_played # game_list[3].where_played
    /\ game_list[2].travel_hours[1].num > 0
    /\ game_list[3].previous_game_datetime = Some(game_list[2].game_datetime)

-----------------------------------------------------------------------------
(* C18 *)

\* the optional fraction f is the number n / d
FracIs(f, n, d) == f # None /\ f[1].den > 0 /\ f[1].num * d = n * f[1].den

\* the team's games are the three of the scenario, once each
ThreeGameSchedule ==
    /\ team_name = Heat
    /\ Cardinality(GamesOf(Heat)) = 3
    /\ {regular_season_data[i] : i \in GamesOf(Heat)} = ScenarioRows

\* C18: for a team whose schedule is a home game at t0, an away game at Y at
\* t0 + 24h and a home game at t0 + 72h, the matrix holding 500 between home and
\* Y, schedulizer returns travel_hours [null, 24, 48], travel_distance
\* [null, 500, 500] and game_mile_hours_burden [null, 500/24, 500/48].
C18_ThreeGameChain ==
    (Terminated /\ ThreeGameSchedule)
        => /\ Returned
           /\ Len(game_list) = 3
           /\ game_list[1].travel_hours = None
           /\ FracIs(game_list[2].travel_hours, 24, 1)
           /\ FracIs(game_list[3].travel_hours, 48, 1)
           /\ game_list[1].travel_distance = None
           /\ game_list[2].travel_distance = Some(500)
           /\ game_list[3].travel_distance = Some(500)
           /\ game_list[1].game_mile_hours_burden = None
           /\ FracIs(game_list[2].game_mile_hours_burden, 500, 24)
           /\ FracIs(game_list[3].game_mile_hours_burden, 500, 48)

\* the chain returned for the three games, which the table listed last game
\* first
C18_Witness ==
    /\ Returned
    /\ ThreeGameSchedule
    /\ regular_season_data[1].home = Heat
    /\ regular_season_data[1].date[3] = 25
    /\ Len(game_list) = 3
    /\ game_list[2].location = "away"

-----------------------------------------------------------------------------
(* C19 *)

\* the matrix and the stadium table know the Kings under the typo spelling only
TypoOnlyTables ==
    /\ "Sacremento Kings" \in distance_df.keys
    /\ "Sacramento Kings" \notin distance_df.keys
    /\ "Sacremento Kings" \in DOMAIN team_coords
    /\ "Sacramento Kings" \notin DOMAIN team_coords

\* the leg into game k starts or ends at the Kings' venue
KingsLeg(k) ==
    /\ ~International(team_games[k - 1]) \/ ~International(team_games[k])
    /\ \/ /\ ~International(team_games[k - 1])
          /\ team_games[k - 1].row.home = "Sacramento Kings"
       \/ /\ ~International(team_games[k])
          /\ team_games[k].row.home = "Sacramento Kings"

\* C19: with the Kings present in the matrix and in the stadium table under the
\* typo spelling only and named canonically by the schedule, every leg into or
\* out of the Kings' venue gets the distance stored under the typo spelling, as
\* if one spelling had been used throughout (the matrix cell of the two
\* venues, or the geodesic from the Kings' stadium when the other end is
\* international): never the 0.0 fallback, and no lookup of the Kings fails.
C19_TypoSpellingResolves ==
    TypoOnlyTables =>
        /\ \A k \in DOMAIN game_list :
              (k > 1 /\ KingsLeg(k)) =>
                  IF International(team_games[k - 1]) \/ International(team_games[k])
                  THEN game_list[k].travel_distance =
                           Some(geodesic(VenuePoint(team_games[k - 1]),
                                         VenuePoint(team_games[k])))
                  ELSE (/\ ~NotInMatrix(k - 1) /\ ~NotInMatrix(k)
                        /\ team_games[k - 1].row.home # team_games[k].row.home)
                           => /\ game_list[k].travel_distance =
                                    Some(distance_df.cell[
                                        <<StadiumSpelling(team_games[k - 1].row.home),
                                          StadiumSpelling(team_games[k].row.home)>>])
                              /\ game_list[k].travel_distance # Some(0)
        /\ (Raised /\ idx >= 1)
              => \E g \in {team_games[idx], team_games[idx + 1]} :
                    NoCoordinates(g) /\ g.row.home # "Sacramento Kings"

\* a chain whose second game is at the Kings: the leg into it has the matrix
\* distance stored under the typo spelling, and the leg out of it, to an
\* international venue, the geodesic from the Kings' stadium
C19_Witness ==
    /\ Returned
    /\ TypoOnlyTables
    /\ Len(game_list) = 3
    /\ game_list[2].where_played = "Sacramento Kings"
    /\ RegularLeg(2)
    /\ game_list[2].travel_distance
          = Some(distance_df.cell[<<"Miami Heat", "Sacremento Kings">>])
    /\ game_list[2].travel_distance[1] > 0
    /\ International(team_games[3])
    /\ game_list[3].travel_distance
          = Some(geodesic(team_coords["Sacremento Kings"],
                          INTERNATIONAL_ARENAS["Mexico City Arena"]))

-----------------------------------------------------------------------------
(* C20 *)

\* the team names the season table holds as visitor or as home
TeamsInTable ==
    {regular_season_data[i].visitor : i \in DOMAIN regular_season_data}
        \cup {regular_season_data[i].home : i \in DOMAIN regular_season_data}

RowsParseable(team) == \A i \in GamesOf(team) : Parseable(regular_season_data[i])

\* the team has a game at an international venue and a game at a regular venue
\* whose home team has no stadium coordinates
MayBeUnlocated(team) ==
    \E i, j \in GamesOf(team) :
        /\ regular_season_data[i].arena \in InternationalVenues
        /\ regular_season_data[j].arena \notin InternationalVenues
        /\ StadiumSpelling(regular_season_data[j].home) \notin DOMAIN team_coords

\* the chain of a team, a record for each of its games
PopulatedChain(team, chain) ==
    /\ Len(chain) = Cardinality(GamesOf(team))
    /\ Len(chain) >= 1
    /\ \A k \in DOMAIN chain : chain[k].team = team /\ chain[k].gameindex = k

\* C20: the mapping create_schedule_mapping returns has as keys exactly the
\* team names of the visitor and home columns, none left out; the value of a
\* team is its populated chain or None; a team whose own rows give schedulizer
\* no reason to fail has its chain whatever happened to the teams before it,
\* and a team with an unparseable row has None.
C20_MappingCoversEveryTeam ==
    /\ mpc = "finished"
          => /\ DOMAIN schedule_mapping = TeamsInTable
             /\ \A t \in TeamsInTable :
                   /\ \/ schedule_mapping[t] = None
                      \/ /\ Len(schedule_mapping[t]) = 1
                         /\ PopulatedChain(t, schedule_mapping[t][1])
                   /\ (RowsParseable(t) /\ ~MayBeUnlocated(t))
                          => schedule_mapping[t] # None
                   /\ ~RowsParseable(t) => schedule_mapping[t] = None
    /\ mpc = "mapping"
          => /\ DOMAIN schedule_mapping \subseteq TeamsInTable
             /\ Cardinality(DOMAIN schedule_mapping) \in {team_i - 1, team_i}

\* the mapping returned for three teams: the first team's schedule failed, and
\* the last team, taken after it, has its chain of two games
C20_Witness ==
    /\ mpc = "finished"
    /\ TeamsInTable = {"Miami Heat", "Sacramento Kings", "Washington Wizards"}
    /\ schedule_mapping["Miami Heat"] = None
    /\ schedule_mapping["Washington Wizards"] # None
    /\ Len(schedule_mapping["Washington Wizards"][1]) = 2

-----------------------------------------------------------------------------
(* C21 *)

ParseErrors ==
    {"ValueError: Could not parse date", "KeyError: month",
     "ValueError: Could not parse time"}

\* C21: when a row of the team has a date text or a start-time text that does
\* not match the pattern, schedulizer raises for that team and has built no
\* record; a row that does not involve the team is never parsed, so the call
\* fails on parsing only when a row of the team itself does not parse.
C21_UnparseableRowFailsTheTeam ==
    /\ (Terminated /\ ~AllGamesParseable)
          => /\ Raised
             /\ error \in ParseErrors
             /\ game_list = << >>
    /\ error \in ParseErrors
          => /\ Raised
             /\ \E i \in GamesOf(team_name) : ~Parseable(regular_season_data[i])

\* the call raised on the team's second row, the first one being parseable,
\* and no record of the first was kept; the table also holds a row of other teams
C21_Witness ==
    /\ Raised
    /\ error = "ValueError: Could not parse time"
    /\ game_list = << >>
    /\ Len(team_games) >= 2
    /\ Parseable(team_games[1].row)
    /\ ~Parseable(team_games[2].row)
    /\ Cardinality(GamesOf(team_name)) < Len(regular_season_data)

-----------------------------------------------------------------------------
(* C22 *)

\* the rows of the table that involve the team, in table order, parsed
OwnGames(team) ==
    LET own == SelectSeq(regular_season_data,
                         LAMBDA r : team \in {r.visitor, r.home})
    IN  [k \in DOMAIN own |->
            [row |-> own[k],
             is_international |-> own[k].arena \in InternationalVenues,
             game_datetime |-> parse_datetime(own[k].date, own[k].start)]]

\* some leg of the games taken in order p raises
OrderFails(games, p) ==
    \E k \in 2..Len(games) :
        record_error(games[p[k - 1]], games[p[k]], distance_df, team_coords) # ""

\* the chain of the games taken in order p
OrderChain(games, p, team) ==
    [k \in DOMAIN games |->
        IF k = 1 THEN first_record(games[p[1]], team)
        ELSE later_record(games[p[k - 1]], games[p[k]], k - 1, team,
                          distance_df, team_coords)]

\* what the team's own rows alone allow as its entry: None, or the chain of its
\* games in one of their ascending orders
OwnResults(team) ==
    IF ~RowsParseable(team) THEN {None}
    ELSE {IF OrderFails(OwnGames(team), p) THEN None
          ELSE Some(OrderChain(OwnGames(team), p, team)) :
             p \in SortedOrders(OwnGames(team))}

\* C22: the entry of every team in the mapping is what that team's own rows
\* give, whatever other rows the table holds and in whatever order the teams
\* are processed; an entry, once stored, is not touched by the teams processed
\* after it.
C22_ChainsAreIndependent ==
    /\ mpc \in {"mapping", "finished"}
          => \A t \in DOMAIN schedule_mapping : schedule_mapping[t] \in OwnResults(t)
    /\ mpc = "finished" => DOMAIN schedule_mapping = TeamsInTable

\* the teams were processed in an order other than the sorted one, the table
\* holds a row that does not involve the last team, an earlier team failed
\* and the others have their chains
C22_Witness ==
    /\ mpc = "finished"
    /\ all_teams = <<"Washington Wizards", "Sacramento Kings", "Miami Heat">>
    /\ schedule_mapping["Washington Wizards"] = None
    /\ schedule_mapping["Sacramento Kings"] # None
    /\ schedule_mapping["Miami Heat"] # None
    /\ Len(schedule_mapping["Miami Heat"][1]) = 2
    /\ Cardinality(GamesOf("Miami Heat")) < Len(regular_season_data)

-----------------------------------------------------------------------------
(* C23 *)

\* the schedule stored for a team that has one
ScheduleOf(team) == schedule_mapping[team][1]

\* the positions of the team's records with a burden
WithBurden(team) ==
    {k \in DOMAIN ScheduleOf(team) : ScheduleOf(team)[k].game_mile_hours_burden # None}

BurdenAt(team, k) == ScheduleOf(team)[k].game_mile_hours_burden[1]

Lcm(a, b) == (a \div Gcd(a, b)) * b

RECURSIVE CommonDen(_, _)
\* a common denominator of the team's burdens at the positions K
CommonDen(team, K) ==
    IF K = {} THEN 1
    ELSE LET k == CHOOSE x \in K : TRUE
         IN  Lcm(BurdenAt(team, k).den, CommonDen(team, K \ {k}))

RECURSIVE ScaledSum(_, _, _)
\* d times the sum of the team's burdens at the positions K, d being a common
\* denominator of them
ScaledSum(team, K, d) ==
    IF K = {} THEN 0
    ELSE LET k == CHOOSE x \in K : TRUE
         IN  BurdenAt(team, k).num * (d \div BurdenAt(team, k).den)
                 + ScaledSum(team, K \ {k}, d)

\* the team has no schedule, or a schedule none of whose records has a burden
NoBurden(team) == schedule_mapping[team] = None \/ WithBurden(team) = {}

\* the optional fraction v is the sum of the team's burdens divided by n
IsBurdenSumOver(v, team, n) ==
    /\ v # None
    /\ v[1].den > 0
    /\ v[1].num * CommonDen(team, WithBurden(team)) * n
          = ScaledSum(team, WithBurden(team), CommonDen(team, WithBurden(team)))
                * v[1].den

\* C23: calculate_average_burden has the keys of the schedule mapping; a team
\* is mapped to None exactly when its schedule is None or has no non-null
\* burden, and otherwise to the sum of its non-null burdens divided by their
\* number.
C23_AverageBurden ==
    average_burdens # None
        => /\ DOMAIN average_burdens[1] = DOMAIN schedule_mapping
           /\ \A t \in DOMAIN schedule_mapping :
                 IF NoBurden(t) THEN average_burdens[1][t] = None
                 ELSE IsBurdenSumOver(average_burdens[1][t], t,
                                      Cardinality(WithBurden(t)))

\* the averages of a mapping in which one team has two different burdens among
\* its three records and another team has a schedule without any burden
C23_Witness ==
    /\ average_burdens # None
    /\ \E t \in DOMAIN schedule_mapping :
          /\ schedule_mapping[t] # None
          /\ Len(ScheduleOf(t)) = 3
          /\ WithBurden(t) = {2, 3}
          /\ BurdenAt(t, 2).num * BurdenAt(t, 3).den
                # BurdenAt(t, 3).num * BurdenAt(t, 2).den
          /\ average_burdens[1][t] # None
    /\ \E t \in DOMAIN schedule_mapping :
          /\ schedule_mapping[t] # None
          /\ average_burdens[1][t] = None

-----------------------------------------------------------------------------
(* C24 *)

\* the positions of the team's records with a travel_distance
WithDistance(team) ==
    {k \in DOMAIN ScheduleOf(team) : ScheduleOf(team)[k].travel_distance # None}

RECURSIVE SumOfDistances(_, _)
SumOfDistances(team, K) ==
    IF K = {} THEN 0
    ELSE LET k == CHOOSE x \in K : TRUE
         IN  ScheduleOf(team)[k].travel_distance[1] + SumOfDistances(team, K \ {k})

NoDistance(team) == schedule_mapping[team] = None \/ WithDistance(team) = {}

\* C24: calculate_total_burden and calculate_total_distance map a team to the
\* sum of the non-null burdens (travel distances) of its chain, and to None,
\* not 0, exactly when its schedule is None or has no such value; the total
\* burden of a team is None exactly when its average burden is None, and
\* otherwise is the average times the number of non-null burdens.
C24_Totals ==
    /\ total_burdens # None
          => /\ DOMAIN total_burdens[1] = DOMAIN schedule_mapping
             /\ \A t \in DOMAIN schedule_mapping :
                   IF NoBurden(t) THEN total_burdens[1][t] = None
                   ELSE IsBurdenSumOver(total_burdens[1][t], t, 1)
    /\ total_distances # None
          => /\ DOMAIN total_distances[1] = DOMAIN schedule_mapping
             /\ \A t \in DOMAIN schedule_mapping :
                   IF NoDistance(t) THEN total_distances[1][t] = None
                   ELSE /\ total_distances[1][t] # None
                        /\ total_distances[1][t][1].den > 0
                        /\ total_distances[1][t][1].num =
                               SumOfDistances(t, WithDistance(t))
                                   * total_distances[1][t][1].den
    /\ (total_burdens # None /\ average_burdens # None)
          => \A t \in DOMAIN schedule_mapping :
                /\ total_burdens[1][t] = None <=> average_burdens[1][t] = None
                /\ total_burdens[1][t] # None
                      => total_burdens[1][t][1].num * average_burdens[1][t][1].den
                            = average_burdens[1][t][1].num * Cardinality(WithBurden(t))
                                  * total_burdens[1][t][1].den

\* totals and averages of a mapping in which a team has two burdens, so that
\* its total is twice its average, and travelled 1000 miles, and another team
\* has a schedule of a single game, whose totals are None
C24_Witness ==
    /\ total_burdens # None /\ total_distances # None /\ average_burdens # None
    /\ \E t \in DOMAIN schedule_mapping :
          /\ schedule_mapping[t] # None
          /\ WithBurden(t) = {2, 3}
          /\ total_burdens[1][t] # average_burdens[1][t]
          /\ total_distances[1][t] = Some(Frac(1000, 1))
    /\ \E t \in DOMAIN schedule_mapping :
          /\ schedule_mapping[t] # None
          /\ Len(ScheduleOf(t)) = 1
          /\ total_burdens[1][t] = None
          /\ total_distances[1][t] = None

-----------------------------------------------------------------------------
(* C25 *)

\* the two arrays returned for the team
GameNumbers(team) == cumulative_burdens[1][team].game_numbers[1]

Cumulative(team) == cumulative_burdens[1][team].cumulative_burdens[1]

\* the fraction f is at most the fraction g
FracLeq(f, g) == f.num * g.den <= g.num * f.den

\* C25: for a schedule, calculate_cumulative_burden returns two arrays as long
\* as the schedule; the k-th game number is the gameindex of record k and the
\* k-th cumulative value is the sum of the non-null burdens of records 1..k, so
\* the first value is 0; the values never decrease, and the last one is the
\* team's total burden when that is not None.
C25_CumulativeBurden ==
    cumulative_burdens # None
        => \A t \in DOMAIN schedule_mapping :
              schedule_mapping[t] # None
                  => /\ cumulative_burdens[1][t].game_numbers # None
                     /\ cumulative_burdens[1][t].cumulative_burdens # None
                     /\ Len(GameNumbers(t)) = Len(ScheduleOf(t))
                     /\ Len(Cumulative(t)) = Len(ScheduleOf(t))
                     /\ \A k \in DOMAIN ScheduleOf(t) :
                           /\ GameNumbers(t)[k] = ScheduleOf(t)[k].gameindex
                           /\ Cumulative(t)[k].den > 0
                           /\ Cumulative(t)[k].num * CommonDen(t, WithBurden(t))
                                 = ScaledSum(t, WithBurden(t) \cap 1..k,
                                             CommonDen(t, WithBurden(t)))
                                       * Cumulative(t)[k].den
                           /\ k > 1 => FracLeq(Cumulative(t)[k - 1], Cumulative(t)[k])
                     /\ Cumulative(t)[1].num = 0
                     /\ (total_burdens # None /\ total_burdens[1][t] # None)
                           => /\ FracLeq(Cumulative(t)[Len(Cumulative(t))],
                                         total_burdens[1][t][1])
                              /\ FracLeq(total_burdens[1][t][1],
                                         Cumulative(t)[Len(Cumulative(t))])

\* the arrays of a team with three games: the running total grows at the second
\* and again at the third game and ends at the team's total burden
C25_Witness ==
    /\ cumulative_burdens # None
    /\ total_burdens # None
    /\ \E t \in DOMAIN schedule_mapping :
          /\ schedule_mapping[t] # None
          /\ GameNumbers(t) = <<1, 2, 3>>
          /\ Cumulative(t)[1].num = 0
          /\ ~FracLeq(Cumulative(t)[2], Cumulative(t)[1])
          /\ ~FracLeq(Cumulative(t)[3], Cumulative(t)[2])
          /\ total_burdens[1][t] = Some(Cumulative(t)[3])

-----------------------------------------------------------------------------
(* C28 *)

\* the cells of the team's row that are not 0, with their columns
NonZeroCells(team) ==
    {c \in distance_df.keys : distance_df.cell[<<team, c>>] # 0}

RECURSIVE SumOfCells(_, _)
SumOfCells(team, cols) ==
    IF cols = {} THEN 0
    ELSE LET c == CHOOSE x \in cols : TRUE
         IN  distance_df.cell[<<team, c>>] + SumOfCells(team, cols \ {c})

-----------------------------------------------------------------------------
(* C26 *)

\* the rows of the distance matrix that have a non-zero cell: the teams of the
\* frame create_BTY_dataframe makes
FrameTeams == {t \in distance_df.keys : NonZeroCells(t) # {}}

\* the row of the matrix the team's yearly road trip is taken from: its own
\* name if the frame has it, else its normalized name
RoadTripRow(team) == IF team \in FrameTeams THEN team ELSE StadiumSpelling(team)

\* a strictly positive average_yearly_road_trip is found for the team
HasRoadTrip(team) ==
    /\ RoadTripRow(team) \in FrameTeams
    /\ SumOfCells(RoadTripRow(team), NonZeroCells(RoadTripRow(team))) > 0

\* the optional fraction v is the fraction total divided by 41 times the mean of
\* the non-zero cells of the team's row
IsNormalized(v, total, team) ==
    /\ v # None
    /\ v[1].den > 0
    /\ v[1].num * total.den * 41
           * SumOfCells(RoadTripRow(team), NonZeroCells(RoadTripRow(team)))
          = total.num * Cardinality(NonZeroCells(RoadTripRow(team))) * v[1].den

\* C26: calculate_normalized_total_distance and calculate_normalized_total_burden
\* map a team to its total divided by its average_yearly_road_trip when the
\* total is not None and a strictly positive average_yearly_road_trip is found
\* under the team's name or its normalized name, and to None otherwise; no
\* division by zero happens, and a team the schedule spells canonically and
\* the matrix only with the typo gets a value whenever it has a total.
C26_NormalizedTotals ==
    /\ normalized_distances # None
          => /\ DOMAIN normalized_distances[1] = DOMAIN schedule_mapping
             /\ \A t \in DOMAIN schedule_mapping :
                   IF NoDistance(t) \/ ~HasRoadTrip(t)
                   THEN normalized_distances[1][t] = None
                   ELSE /\ normalized_distances[1][t] # None
                        /\ normalized_distances[1][t][1].den > 0
                        /\ total_distances # None
                              => IsNormalized(normalized_distances[1][t],
                                              total_distances[1][t][1], t)
    /\ normalized_burdens # None
          => /\ DOMAIN normalized_burdens[1] = DOMAIN schedule_mapping
             /\ \A t \in DOMAIN schedule_mapping :
                   IF NoBurden(t) \/ ~HasRoadTrip(t)
                   THEN normalized_burdens[1][t] = None
                   ELSE /\ normalized_burdens[1][t] # None
                        /\ normalized_burdens[1][t][1].den > 0
                        /\ total_burdens # None
                              => IsNormalized(normalized_burdens[1][t],
                                              total_burdens[1][t][1], t)
    /\ \A t \in {"Sacramento Kings"} \cap DOMAIN schedule_mapping :
          ("Sacremento Kings" \in FrameTeams /\ "Sacramento Kings" \notin FrameTeams)
              => /\ (normalized_distances # None /\ ~NoDistance(t))
                       => normalized_distances[1][t] # None
                 /\ (normalized_burdens # None /\ ~NoBurden(t))
                       => normalized_burdens[1][t] # None

\* the Kings, whom the matrix knows only under the typo spelling, have a
\* positive normalized distance and burden, and the Wizards, who are missing
\* from the matrix, have a total distance but None as normalized distance
C26_Witness ==
    /\ normalized_distances # None /\ normalized_burdens # None
    /\ total_distances # None
    /\ "Sacramento Kings" \in DOMAIN schedule_mapping
    /\ "Sacramento Kings" \notin distance_df.keys
    /\ normalized_distances[1]["Sacramento Kings"] # None
    /\ normalized_distances[1]["Sacramento Kings"][1].num > 0
    /\ normalized_burdens[1]["Sacramento Kings"] # None
    /\ normalized_burdens[1]["Sacramento Kings"][1].num > 0
    /\ "Washington Wizards" \in DOMAIN schedule_mapping
    /\ "Washington Wizards" \notin distance_df.keys
    /\ total_distances[1]["Washington Wizards"] # None
    /\ normalized_distances[1]["Washington Wizards"] = None

\* the text "h:mm AM" or "h:mm PM"
ClockText(h, m, mer) == str(h) \o <<":">> \o two_digits(m) \o <<" ">> \o mer

\* C27: for h in 1..12, m in 0..59 and AM or PM, the converted 'h:mm AM/PM' is
\* a text parse_datetime accepts, and the hour it parses is 0 for 12 AM, 12 for
\* 12 PM, h for any other AM and h + 12 for any other PM, the minute unchanged.
C27_ConvertedTimeParses ==
    \A h \in 1..12, m \in 0..59, mer \in {<<"A", "M">>, <<"P", "M">>} :
        (time_raw = ClockText(h, m, mer) /\ parsed # None) =>
            /\ parsed[1].error = ""
            /\ parsed[1].value =
                   Some(<<IF mer[1] = "A" THEN (IF h = 12 THEN 0 ELSE h)
                          ELSE (IF h = 12 THEN 12 ELSE h + 12),
                          m>>)

C27_Witness ==
    /\ time_raw = ClockText(12, 5, <<"A", "M">>)
    /\ start_et = Some(<<"1", "2", ":", "0", "5", "a">>)
    /\ parsed = Some([error |-> "", value |-> Some(<<0, 5>>)])

-----------------------------------------------------------------------------
(* C29 *)

\* C29: every record with gameindex > 1 has travel_hours >= 0, the time between
\* consecutive games of a chain never being negative, so that a later record
\* has a null burden only when its travel_hours is 0.
C29_TravelHoursNeverNegative ==
    \A k \in DOMAIN game_list :
        game_list[k].gameindex > 1 =>
            /\ game_list[k].travel_hours # None
            /\ game_list[k].travel_hours[1].den > 0
            /\ game_list[k].travel_hours[1].num >= 0
            /\ game_list[k].game_mile_hours_burden = None
                   => game_list[k].travel_hours[1].num = 0

\* a chain returned from a table that lists a later game before an earlier one,
\* with one later record zero hours after the record before it, its burden
\* null, and one a positive number of hours after, over no distance, its burden
\* not null
C29_Witness ==
    /\ Returned
    /\ Len(game_list) = 3
    /\ \E i, j \in GamesOf(team_name) :
           i < j /\ parse_datetime(regular_season_data[i].date, regular_season_data[i].start)
                        > parse_datetime(regular_season_data[j].date, regular_season_data[j].start)
    /\ \E k \in 2..3 :
           /\ game_list[k].travel_hours[1].num = 0
           /\ game_list[k].game_mile_hours_burden = None
    /\ \E k \in 2..3 :
           /\ game_list[k].travel_hours[1].num > 0
           /\ game_list[k].travel_distance[1] = 0
           /\ game_list[k].game_mile_hours_burden # None

-----------------------------------------------------------------------------
(* C30 *)

\* the leg into game k of the sorted schedule joins two international venues
BothAbroad(k) ==
    /\ k > 1 /\ k <= Len(team_games)
    /\ International(team_games[k - 1])
    /\ International(team_games[k])

\* C30: a record whose game and the game before it are both at the same
\* international venue has travel_distance 0, whichever teams are the home
\* teams; when the two are at different international venues the distance is
\* the geodesic between the venues' fixed coordinates; in both cases no team's
\* coordinates are looked up, so the leg never raises for a missing team.
C30_BetweenInternationalVenues ==
    /\ \A k \in DOMAIN game_list :
           BothAbroad(k) =>
               /\ game_list[k].travel_distance =
                      Some(geodesic(INTERNATIONAL_ARENAS[team_games[k - 1].row.arena],
                                    INTERNATIONAL_ARENAS[team_games[k].row.arena]))
               /\ team_games[k - 1].row.arena = team_games[k].row.arena
                      => game_list[k].travel_distance = Some(0)
    /\ (Raised /\ idx >= 1) => ~BothAbroad(idx + 1)

\* a chain returned with a stadium table that holds neither home team: the
\* second game at the venue of the first with the other team at home, the third
\* at the other international venue
C30_Witness ==
    /\ Returned
    /\ Len(game_list) = 3
    /\ Heat \notin DOMAIN team_coords /\ Wizards \notin DOMAIN team_coords
    /\ BothAbroad(2) /\ BothAbroad(3)
    /\ team_games[1].row.arena = team_games[2].row.arena
    /\ game_list[2].previous_where_played # Some(game_list[2].where_played)
    /\ game_list[2].travel_distance = Some(0)
    /\ team_games[2].row.arena = MexicoCity /\ team_games[3].row.arena = AccorHotels
    /\ game_list[3].travel_distance = Some(geodesic(<<19, -99>>, <<49, 2>>))
    /\ game_list[3].travel_distance[1] > 0

=============================================================================
